---- MODULE Spec2Model ----
(***************************************************************************)
(* Model of the Blazor web boot orchestrator (Boot.Web.ts), the circuit    *)
(* descriptor (CircuitManager.ts) and component descriptor discovery and   *)
(* merging (ComponentDescriptorDiscovery.ts).                              *)
(*                                                                         *)
(* Eight specifications share the variables; each moves only its own group  *)
(* and leaves the others at their initial value:                           *)
(*   Spec           the boot orchestrator and its start guards             *)
(*   SpecAuto       the same, the auto mode decided by the registry        *)
(*   SpecCircuit    one CircuitDescriptor                                  *)
(*   SpecMerge      ComponentDescriptor.merge                              *)
(*   SpecDiscovery  discoverComponents over a DOM subtree                  *)
(*   SpecMalformed  discoverComponents over subtrees with malformed markers*)
(*   SpecPairing    discoverComponents over prerendered components         *)
(*   SpecPersisted  discoverPersistedState over a DOM subtree              *)
(***************************************************************************)
EXTENDS Integers, Sequences, FiniteSets, TLC

VARIABLES
  \* ---- boot orchestrator (module state of Boot.Web.ts)
  started,                        \* let started
  webStartOptions,                \* let webStartOptions
  isPerformingEnhancedNavigation, \* let isPerformingEnhancedNavigation
  hasWebAssemblyLoaded,           \* let hasWebAssemblyLoaded
  hasCircuitStarted,              \* let hasCircuitStarted
  hasStartedLoadingWebAssembly,   \* let hasStartedLoadingWebAssembly
  isStartingWebAssembly,          \* let isStartingWebAssembly
  circuitCall,                    \* the awaited startCircuit(...) promise
  loadCall,                       \* the awaited loadWebAssemblyPlatform(...) promise
  wasmCall,                       \* the awaited startWebAssembly(...) promise
  startCircuitCalls,              \* times startCircuit was issued
  loadCalls,                      \* times loadWebAssemblyPlatform was issued
  startWasmCalls,                 \* times startWebAssembly was issued
  registeredAtCircuitStart,       \* server descriptors in the registry when startCircuit was issued, -1 before
  registeredAtLoad,               \* auto descriptors in the registry when loadWebAssemblyPlatform was issued, -1 before
  registeredAtWebAssemblyStart,   \* webassembly descriptors in the registry when startWebAssembly was issued, -1 before
  registered,                     \* descriptors handed to rootComponentManager, per type
  scanQueue,                      \* descriptors of the document still to register during boot
  reconciliations,                \* times handleUpdatedRootComponents was called
  lastAllowInsertions,            \* argument of the last handleUpdatedRootComponents call
  lastResolved,                   \* what the auto mode resolver returned last
  bootResult,                     \* outcome of the last boot call
  events,                         \* external events delivered so far
  \* ---- circuit descriptor
  circuitId,                      \* CircuitDescriptor.circuitId
  pendingStarts,                  \* startCircuit calls awaiting connection.invoke
  invokes,                        \* connection.invoke calls issued
  initLog,                        \* every initialize call: its argument and whether it returned
  lastCall,                       \* the last operation on the descriptor and its outcome
  opCount,                        \* operations performed on the descriptor
  \* ---- merge
  existing,                       \* the descriptor merge is called on (this)
  incoming,                       \* the descriptor passed to merge (other)
  mergeOutcome,                   \* outcome of the last merge
  \* ---- discovery
  dom,                            \* child nodes of the root given to discoverComponents
  rootIsDocument,                 \* the root is the Document
  globalId,                       \* WebAssemblyComponentDescriptor.globalId
  discovery,                      \* the last discoverComponents call and what it returned
  \* ---- persisted state
  persistedDom,                   \* child nodes of the node given to discoverPersistedState
  persistedResult,                \* what the last discoverPersistedState call returned
  persistedCalls,                 \* discoverPersistedState calls made
  \* ---- auto mode decision
  autoRenderMode,                 \* the registry's cached result of the auto mode resolver
  resolverCalls                   \* times the auto mode resolver callback was invoked

bootVars ==
  <<started, webStartOptions, isPerformingEnhancedNavigation, hasWebAssemblyLoaded,
    hasCircuitStarted, hasStartedLoadingWebAssembly, isStartingWebAssembly,
    circuitCall, loadCall, wasmCall, startCircuitCalls, loadCalls, startWasmCalls,
    registeredAtCircuitStart, registeredAtLoad, registeredAtWebAssemblyStart,
    registered, scanQueue, reconciliations, lastAllowInsertions, lastResolved,
    bootResult, events>>

circuitVars == <<circuitId, pendingStarts, invokes, initLog, lastCall, opCount>>

mergeVars == <<existing, incoming, mergeOutcome>>

discoveryVars == <<dom, rootIsDocument, globalId, discovery>>

persistedVars == <<persistedDom, persistedResult, persistedCalls>>

registryVars == <<autoRenderMode, resolverCalls>>

vars ==
  <<bootVars, circuitVars, mergeVars, discoveryVars, persistedVars, registryVars>>

(***************************************************************************)
(* Bounds of the model.                                                    *)
(***************************************************************************)
\* External events (registrations, navigation callbacks, resolver calls) per behaviour.
MaxEvents == 5

\* Descriptors found in the document by the initial scan of boot.
MaxDocDescriptors == 2

\* Operations performed on one CircuitDescriptor per behaviour.
MaxCircuitOps == 4

\* Nodes of the DOM subtree handed to discovery.
MaxNodes == 4

\* discoverPersistedState calls per behaviour.
MaxPersistedCalls == 3

(***************************************************************************)
(* Values.                                                                 *)
(***************************************************************************)
\* undefined
Undefined == "undefined"

DescriptorTypes == {"auto", "server", "webassembly"}

StartOptions == {"optionsA", "optionsB"}

(***************************************************************************)
(* Boot orchestrator.                                                      *)
(***************************************************************************)
BootInit ==
  /\ started = FALSE
  /\ webStartOptions = Undefined
  /\ isPerformingEnhancedNavigation = FALSE
  /\ hasWebAssemblyLoaded = FALSE
  /\ hasCircuitStarted = FALSE
  /\ hasStartedLoadingWebAssembly = FALSE
  /\ isStartingWebAssembly = FALSE
  /\ circuitCall = "idle"
  /\ loadCall = "idle"
  /\ wasmCall = "idle"
  /\ startCircuitCalls = 0
  /\ loadCalls = 0
  /\ startWasmCalls = 0
  /\ registeredAtCircuitStart = -1
  /\ registeredAtLoad = -1
  /\ registeredAtWebAssemblyStart = -1
  /\ registered = [t \in DescriptorTypes |-> 0]
  /\ scanQueue = <<>>
  /\ reconciliations = 0
  /\ lastAllowInsertions = Undefined
  /\ lastResolved = Undefined
  /\ bootResult = Undefined
  /\ events = 0

\* handleUpdatedDescriptors: reconcile, inserting only outside an enhanced navigation.
\* `navigating` is isPerformingEnhancedNavigation as the caller has just left it.
handleUpdatedDescriptors(navigating) ==
  /\ reconciliations' = reconciliations + 1
  /\ lastAllowInsertions' = ~navigating

circuitGuard ==
  <<hasCircuitStarted, circuitCall, startCircuitCalls, registeredAtCircuitStart>>

\* startCircuitIfNotStarted without its guard: every trigger issues the start.
\* `reg` is the registry's content at the time of the call.
startCircuitUnguarded(reg) ==
  /\ hasCircuitStarted' = TRUE
  /\ circuitCall' = "pending"
  /\ startCircuitCalls' = startCircuitCalls + 1
  /\ registeredAtCircuitStart' = reg["server"]

\* startCircuitIfNotStarted, up to its await.
startCircuitIfNotStarted(reg) ==
  IF hasCircuitStarted
    THEN UNCHANGED circuitGuard
    ELSE /\ hasCircuitStarted' = TRUE
         /\ circuitCall' = "pending"
         /\ startCircuitCalls' = startCircuitCalls + 1
         /\ registeredAtCircuitStart' = reg["server"]

loadGuard == <<hasStartedLoadingWebAssembly, loadCall, loadCalls, registeredAtLoad>>

\* startLoadingWebAssembly, up to its await.
startLoadingWebAssembly(reg) ==
  IF hasStartedLoadingWebAssembly
    THEN UNCHANGED loadGuard
    ELSE /\ hasStartedLoadingWebAssembly' = TRUE
         /\ loadCall' = "pending"
         /\ loadCalls' = loadCalls + 1
         /\ registeredAtLoad' = reg["auto"]

wasmGuard ==
  <<isStartingWebAssembly, wasmCall, startWasmCalls, registeredAtWebAssemblyStart>>

\* startWebAssemblyIfNotStarted with the guard tested but never set.
startWebAssemblyGuardNeverSet(reg) ==
  IF isStartingWebAssembly
    THEN UNCHANGED wasmGuard
    ELSE /\ isStartingWebAssembly' = FALSE
         /\ wasmCall' = "pending"
         /\ startWasmCalls' = startWasmCalls + 1
         /\ registeredAtWebAssemblyStart' = reg["webassembly"]

\* startWebAssemblyIfNotStarted, up to its await.
startWebAssemblyIfNotStarted(reg) ==
  IF isStartingWebAssembly
    THEN UNCHANGED wasmGuard
    ELSE /\ isStartingWebAssembly' = TRUE
         /\ wasmCall' = "pending"
         /\ startWasmCalls' = startWasmCalls + 1
         /\ registeredAtWebAssemblyStart' = reg["webassembly"]

\* registerComponentDescriptor(descriptor) with the start triggered first and the
\* descriptor handed to the registry after it.
registerComponentDescriptorStartingFirst(t) ==
  /\ IF t = "auto"
       THEN startLoadingWebAssembly(registered) /\ UNCHANGED <<circuitGuard, wasmGuard>>
       ELSE IF t = "server"
         THEN startCircuitIfNotStarted(registered) /\ UNCHANGED <<loadGuard, wasmGuard>>
         ELSE /\ startWebAssemblyIfNotStarted(registered)
              /\ UNCHANGED <<circuitGuard, loadGuard>>
  /\ registered' = [registered EXCEPT ![t] = @ + 1]

\* registerComponentDescriptor(descriptor), for a descriptor of type t: the registry
\* takes the descriptor, then the start matching its type is triggered.
registerComponentDescriptor(t) ==
  /\ registered' = [registered EXCEPT ![t] = @ + 1]
  /\ IF t = "auto"
       THEN startLoadingWebAssembly(registered') /\ UNCHANGED <<circuitGuard, wasmGuard>>
       ELSE IF t = "server"
         THEN startCircuitIfNotStarted(registered') /\ UNCHANGED <<loadGuard, wasmGuard>>
         ELSE /\ startWebAssemblyIfNotStarted(registered')
              /\ UNCHANGED <<circuitGuard, loadGuard>>

\* The handlers run to completion: nothing else runs while boot is still scanning.
Idle == started /\ scanQueue = <<>>

DocumentScans ==
  UNION {[1..n -> DescriptorTypes] : n \in 0..MaxDocDescriptors}

\* boot(options) without the test of started: every call boots.
BootUnguarded ==
  /\ scanQueue = <<>>
  /\ events < MaxEvents
  /\ events' = events + 1
  /\ \E options \in StartOptions \cup {Undefined} : webStartOptions' = options
  /\ \E doc \in DocumentScans : scanQueue' = doc
  /\ started' = TRUE
  /\ bootResult' = "ok"
  /\ UNCHANGED <<isPerformingEnhancedNavigation, hasWebAssemblyLoaded, circuitGuard,
                 loadGuard, wasmGuard, registered, reconciliations,
                 lastAllowInsertions, lastResolved>>

\* boot(options): throws when already started; else stores the options, attaches the
\* handlers and registers every descriptor of the document (ScanNext, one by one).
Boot ==
  /\ scanQueue = <<>>
  /\ events < MaxEvents
  /\ events' = events + 1
  /\ IF started
       THEN /\ bootResult' = "already started"
            /\ UNCHANGED <<started, webStartOptions, scanQueue>>
       ELSE /\ \E options \in StartOptions \cup {Undefined} : webStartOptions' = options
            /\ \E doc \in DocumentScans : scanQueue' = doc
            /\ started' = TRUE
            /\ bootResult' = "ok"
  /\ UNCHANGED <<isPerformingEnhancedNavigation, hasWebAssemblyLoaded, circuitGuard,
                 loadGuard, wasmGuard, registered, reconciliations,
                 lastAllowInsertions, lastResolved>>

\* registerAllComponentDescriptors(document) inside boot: the next descriptor found.
ScanNext ==
  /\ started
  /\ scanQueue # <<>>
  /\ registerComponentDescriptor(Head(scanQueue))
  /\ scanQueue' = Tail(scanQueue)
  /\ UNCHANGED <<started, webStartOptions, isPerformingEnhancedNavigation,
                 hasWebAssemblyLoaded, reconciliations, lastAllowInsertions,
                 lastResolved, bootResult, events>>

\* The attached descriptor handler is called for a descriptor found by a later update.
RegisterComponentDescriptor ==
  /\ Idle
  /\ events < MaxEvents
  /\ events' = events + 1
  /\ \E t \in DescriptorTypes : registerComponentDescriptor(t)
  /\ UNCHANGED <<started, webStartOptions, isPerformingEnhancedNavigation,
                 hasWebAssemblyLoaded, scanQueue, reconciliations,
                 lastAllowInsertions, lastResolved, bootResult>>

\* The resolver answering 'server' whether or not the local-execution payload is loaded.
autoModeResolverAlwaysServer ==
  /\ resolverCalls' = resolverCalls + 1
  /\ startCircuitIfNotStarted(registered)
  /\ lastResolved' = "server"
  /\ UNCHANGED wasmGuard

\* The callback given to attachAutoModeResolver; lastResolved is what it returns.
autoModeResolver ==
  /\ resolverCalls' = resolverCalls + 1
  /\ IF hasWebAssemblyLoaded
       THEN /\ startWebAssemblyIfNotStarted(registered)
            /\ lastResolved' = "webassembly"
            /\ UNCHANGED circuitGuard
       ELSE /\ startCircuitIfNotStarted(registered)
            /\ lastResolved' = "server"
            /\ UNCHANGED wasmGuard

\* The callback given to attachAutoModeResolver is called.
AutoModeResolver ==
  /\ Idle
  /\ events < MaxEvents
  /\ events' = events + 1
  /\ autoModeResolver
  /\ UNCHANGED <<started, webStartOptions, isPerformingEnhancedNavigation,
                 hasWebAssemblyLoaded, loadGuard, registered, scanQueue,
                 reconciliations, lastAllowInsertions, bootResult>>

BeforeEnhancedNavigation ==
  /\ Idle
  /\ events < MaxEvents
  /\ events' = events + 1
  /\ isPerformingEnhancedNavigation' = TRUE
  /\ UNCHANGED <<started, webStartOptions, hasWebAssemblyLoaded, circuitGuard,
                 loadGuard, wasmGuard, registered, scanQueue, reconciliations,
                 lastAllowInsertions, lastResolved, bootResult>>

AfterDocumentUpdated ==
  /\ Idle
  /\ events < MaxEvents
  /\ events' = events + 1
  /\ handleUpdatedDescriptors(isPerformingEnhancedNavigation)
  /\ UNCHANGED <<started, webStartOptions, isPerformingEnhancedNavigation,
                 hasWebAssemblyLoaded, circuitGuard, loadGuard, wasmGuard,
                 registered, scanQueue, lastResolved, bootResult>>

AfterEnhancedNavigation ==
  /\ Idle
  /\ events < MaxEvents
  /\ events' = events + 1
  /\ isPerformingEnhancedNavigation' = FALSE
  /\ handleUpdatedDescriptors(FALSE)
  /\ UNCHANGED <<started, webStartOptions, hasWebAssemblyLoaded, circuitGuard,
                 loadGuard, wasmGuard, registered, scanQueue, lastResolved,
                 bootResult>>

\* startCircuit resolves and the registry is reconciled with insertions allowed,
\* whether or not an enhanced navigation is in progress.
StartCircuitResolvedAllowingInsertions ==
  /\ Idle
  /\ circuitCall = "pending"
  /\ circuitCall' = "resolved"
  /\ handleUpdatedDescriptors(FALSE)
  /\ UNCHANGED <<started, webStartOptions, isPerformingEnhancedNavigation,
                 hasWebAssemblyLoaded, hasCircuitStarted, startCircuitCalls,
                 registeredAtCircuitStart,
                 loadGuard, wasmGuard, registered, scanQueue, lastResolved,
                 bootResult, events>>

\* startCircuit resolves: startCircuitIfNotStarted resumes after its await.
StartCircuitResolved ==
  /\ Idle
  /\ circuitCall = "pending"
  /\ circuitCall' = "resolved"
  /\ handleUpdatedDescriptors(isPerformingEnhancedNavigation)
  /\ UNCHANGED <<started, webStartOptions, isPerformingEnhancedNavigation,
                 hasWebAssemblyLoaded, hasCircuitStarted, startCircuitCalls,
                 registeredAtCircuitStart,
                 loadGuard, wasmGuard, registered, scanQueue, lastResolved,
                 bootResult, events>>

\* startCircuit rejects and the guard is cleared, so that a later trigger retries.
StartCircuitRejectedResettingGuard ==
  /\ Idle
  /\ circuitCall = "pending"
  /\ circuitCall' = "rejected"
  /\ hasCircuitStarted' = FALSE
  /\ UNCHANGED <<started, webStartOptions, isPerformingEnhancedNavigation,
                 hasWebAssemblyLoaded, startCircuitCalls,
                 registeredAtCircuitStart,
                 loadGuard, wasmGuard, registered, scanQueue, reconciliations,
                 lastAllowInsertions, lastResolved, bootResult, events>>

\* startCircuit rejects: the rest of startCircuitIfNotStarted never runs.
StartCircuitRejected ==
  /\ Idle
  /\ circuitCall = "pending"
  /\ circuitCall' = "rejected"
  /\ UNCHANGED <<started, webStartOptions, isPerformingEnhancedNavigation,
                 hasWebAssemblyLoaded, hasCircuitStarted, startCircuitCalls,
                 registeredAtCircuitStart,
                 loadGuard, wasmGuard, registered, scanQueue, reconciliations,
                 lastAllowInsertions, lastResolved, bootResult, events>>

\* loadWebAssemblyPlatform resolves and the registry is reconciled as after a start.
LoadWebAssemblyResolvedReconciling ==
  /\ Idle
  /\ loadCall = "pending"
  /\ loadCall' = "resolved"
  /\ hasWebAssemblyLoaded' = TRUE
  /\ handleUpdatedDescriptors(isPerformingEnhancedNavigation)
  /\ UNCHANGED <<started, webStartOptions, isPerformingEnhancedNavigation,
                 hasStartedLoadingWebAssembly, loadCalls,
                 registeredAtLoad, circuitGuard, wasmGuard,
                 registered, scanQueue, lastResolved, bootResult, events>>

\* loadWebAssemblyPlatform resolves: startLoadingWebAssembly resumes after its await.
LoadWebAssemblyResolved ==
  /\ Idle
  /\ loadCall = "pending"
  /\ loadCall' = "resolved"
  /\ hasWebAssemblyLoaded' = TRUE
  /\ UNCHANGED <<started, webStartOptions, isPerformingEnhancedNavigation,
                 hasStartedLoadingWebAssembly, loadCalls,
                 registeredAtLoad, circuitGuard, wasmGuard,
                 registered, scanQueue, reconciliations, lastAllowInsertions,
                 lastResolved, bootResult, events>>

LoadWebAssemblyRejected ==
  /\ Idle
  /\ loadCall = "pending"
  /\ loadCall' = "rejected"
  /\ UNCHANGED <<started, webStartOptions, isPerformingEnhancedNavigation,
                 hasWebAssemblyLoaded, hasStartedLoadingWebAssembly, loadCalls,
                 registeredAtLoad,
                 circuitGuard, wasmGuard, registered, scanQueue, reconciliations,
                 lastAllowInsertions, lastResolved, bootResult, events>>

\* startWebAssembly resolves: startWebAssemblyIfNotStarted resumes after its await.
StartWebAssemblyResolved ==
  /\ Idle
  /\ wasmCall = "pending"
  /\ wasmCall' = "resolved"
  /\ hasWebAssemblyLoaded' = TRUE
  /\ handleUpdatedDescriptors(isPerformingEnhancedNavigation)
  /\ UNCHANGED <<started, webStartOptions, isPerformingEnhancedNavigation,
                 isStartingWebAssembly, startWasmCalls,
                 registeredAtWebAssemblyStart, circuitGuard, loadGuard,
                 registered, scanQueue, lastResolved, bootResult, events>>

StartWebAssemblyRejected ==
  /\ Idle
  /\ wasmCall = "pending"
  /\ wasmCall' = "rejected"
  /\ UNCHANGED <<started, webStartOptions, isPerformingEnhancedNavigation,
                 hasWebAssemblyLoaded, isStartingWebAssembly, startWasmCalls,
                 registeredAtWebAssemblyStart,
                 circuitGuard, loadGuard, registered, scanQueue, reconciliations,
                 lastAllowInsertions, lastResolved, bootResult, events>>

\* What neither the boot orchestrator nor the auto mode decision touches.
otherThanAuto == <<circuitVars, mergeVars, discoveryVars, persistedVars>>

\* What no step of the boot orchestrator touches, the resolver callback apart.
otherThanBoot ==
  <<circuitVars, mergeVars, discoveryVars, persistedVars, registryVars>>

BootNext ==
  \/ Boot /\ UNCHANGED otherThanBoot
  \/ ScanNext /\ UNCHANGED otherThanBoot
  \/ RegisterComponentDescriptor /\ UNCHANGED otherThanBoot
  \/ AutoModeResolver /\ UNCHANGED <<otherThanAuto, autoRenderMode>>
  \/ BeforeEnhancedNavigation /\ UNCHANGED otherThanBoot
  \/ AfterDocumentUpdated /\ UNCHANGED otherThanBoot
  \/ AfterEnhancedNavigation /\ UNCHANGED otherThanBoot
  \/ StartCircuitResolved /\ UNCHANGED otherThanBoot
  \/ StartCircuitRejected /\ UNCHANGED otherThanBoot
  \/ LoadWebAssemblyResolved /\ UNCHANGED otherThanBoot
  \/ LoadWebAssemblyRejected /\ UNCHANGED otherThanBoot
  \/ StartWebAssemblyResolved /\ UNCHANGED otherThanBoot
  \/ StartWebAssemblyRejected /\ UNCHANGED otherThanBoot

(***************************************************************************)
(* The auto mode decision of the root component registry.  The registry is *)
(* defined outside Boot.Web.ts: its decision is modelled as documented,    *)
(* the resolver callback it invokes is the one boot attaches.              *)
(***************************************************************************)
RegistryInit ==
  /\ autoRenderMode = Undefined
  /\ resolverCalls = 0

\* The decision taken anew for every auto descriptor.
DecideAutoModeUncached ==
  /\ Idle
  /\ events < MaxEvents
  /\ events' = events + 1
  /\ registered["auto"] > 0
  /\ autoModeResolver
  /\ autoRenderMode' = lastResolved'
  /\ UNCHANGED <<started, webStartOptions, isPerformingEnhancedNavigation,
                 hasWebAssemblyLoaded, loadGuard, registered, scanQueue,
                 reconciliations, lastAllowInsertions, bootResult>>

\* The registry decides the mode of an auto descriptor: the first time it invokes
\* the resolver and caches what it returns, later it uses the cached result.
DecideAutoMode ==
  /\ Idle
  /\ events < MaxEvents
  /\ events' = events + 1
  /\ registered["auto"] > 0
  /\ IF autoRenderMode = Undefined
       THEN /\ autoModeResolver
            /\ autoRenderMode' = lastResolved'
       ELSE UNCHANGED <<circuitGuard, wasmGuard, lastResolved, registryVars>>
  /\ UNCHANGED <<started, webStartOptions, isPerformingEnhancedNavigation,
                 hasWebAssemblyLoaded, loadGuard, registered, scanQueue,
                 reconciliations, lastAllowInsertions, bootResult>>

\* The boot orchestrator with the resolver invoked by the registry alone.
AutoNext ==
  \/ Boot /\ UNCHANGED otherThanBoot
  \/ ScanNext /\ UNCHANGED otherThanBoot
  \/ RegisterComponentDescriptor /\ UNCHANGED otherThanBoot
  \/ DecideAutoMode /\ UNCHANGED otherThanAuto
  \/ BeforeEnhancedNavigation /\ UNCHANGED otherThanBoot
  \/ AfterDocumentUpdated /\ UNCHANGED otherThanBoot
  \/ AfterEnhancedNavigation /\ UNCHANGED otherThanBoot
  \/ StartCircuitResolved /\ UNCHANGED otherThanBoot
  \/ StartCircuitRejected /\ UNCHANGED otherThanBoot
  \/ LoadWebAssemblyResolved /\ UNCHANGED otherThanBoot
  \/ LoadWebAssemblyRejected /\ UNCHANGED otherThanBoot
  \/ StartWebAssemblyResolved /\ UNCHANGED otherThanBoot
  \/ StartWebAssemblyRejected /\ UNCHANGED otherThanBoot

(***************************************************************************)
(* Circuit descriptor.                                                     *)
(***************************************************************************)
\* Identities a caller or the remote StartCircuit call may supply; "" is the empty string.
CircuitIds == {"", "c1", "c2"}

\* A rejected connection.invoke promise.
Rejected == "rejected"

\* A thrown Error.
Threw == "error"

\* A promise still awaited.
Pending == "pending"

\* The booleans a promise resolves to.
True == "true"
False == "false"

\* JavaScript truthiness of a string-or-undefined value: !value.
Falsy(v) == v \in {Undefined, ""}

CircuitInit ==
  /\ circuitId = Undefined
  /\ pendingStarts = 0
  /\ invokes = 0
  /\ initLog = <<>>
  /\ lastCall = [n |-> 0, op |-> Undefined, connected |-> FALSE,
                 arg |-> Undefined, outcome |-> Undefined]
  /\ opCount = 0

\* initialize assigning without testing this.circuitId.
initializeUnchecked(cid, id) == [threw |-> FALSE, circuitId |-> id]

\* CircuitDescriptor.initialize(circuitId) on a descriptor whose circuitId is cid.
initialize(cid, id) ==
  IF ~Falsy(cid)
    THEN [threw |-> TRUE, circuitId |-> cid]
    ELSE [threw |-> FALSE, circuitId |-> id]

\* startCircuit issuing the remote call whatever the connection state.
startCircuitIgnoringState(connected) == TRUE

\* CircuitDescriptor.startCircuit up to its await: whether connection.invoke is reached.
startCircuitInvokes(connected) == connected

\* startCircuit testing the result against undefined only.
startCircuitResumeNotUndefined(cid, result) ==
  IF result # Undefined
    THEN LET r == initialize(cid, result)
         IN [outcome |-> IF r.threw THEN Threw ELSE True,
             circuitId |-> r.circuitId, initialized |-> TRUE]
    ELSE [outcome |-> False, circuitId |-> cid, initialized |-> FALSE]

\* startCircuit storing the returned identity itself, without initialize and its test.
startCircuitResumeOverwriting(cid, result) ==
  IF ~Falsy(result)
    THEN [outcome |-> True, circuitId |-> result, initialized |-> TRUE]
    ELSE [outcome |-> False, circuitId |-> cid, initialized |-> FALSE]

\* CircuitDescriptor.startCircuit after its await, the remote call having returned result.
startCircuitResume(cid, result) ==
  IF ~Falsy(result)
    THEN LET r == initialize(cid, result)
         IN [outcome |-> IF r.threw THEN Threw ELSE True,
             circuitId |-> r.circuitId, initialized |-> TRUE]
    ELSE [outcome |-> False, circuitId |-> cid, initialized |-> FALSE]

\* reconnect testing the connection state before the circuit id.
reconnectStateFirst(cid, connected, remote) ==
  IF ~connected
    THEN [outcome |-> False, invoked |-> FALSE]
    ELSE IF Falsy(cid)
      THEN [outcome |-> Threw, invoked |-> FALSE]
      ELSE [outcome |-> remote, invoked |-> TRUE]

\* CircuitDescriptor.reconnect(reconnection); remote is what ConnectCircuit answers.
reconnect(cid, connected, remote) ==
  IF Falsy(cid)
    THEN [outcome |-> Threw, invoked |-> FALSE]
    ELSE IF ~connected
      THEN [outcome |-> False, invoked |-> FALSE]
      ELSE [outcome |-> remote, invoked |-> TRUE]

\* A caller calls initialize(id).
Initialize ==
  /\ opCount < MaxCircuitOps
  /\ \E id \in CircuitIds :
       LET r == initialize(circuitId, id)
       IN /\ circuitId' = r.circuitId
          /\ initLog' = Append(initLog, [id |-> id, ok |-> ~r.threw])
          /\ lastCall' = [n |-> lastCall.n + 1, op |-> "initialize",
                          connected |-> FALSE, arg |-> id,
                          outcome |-> IF r.threw THEN Threw ELSE "returned"]
  /\ opCount' = opCount + 1
  /\ UNCHANGED <<pendingStarts, invokes>>

\* A caller calls startCircuit(connection); it runs up to its await.
StartCircuit ==
  /\ opCount < MaxCircuitOps
  /\ \E connected \in BOOLEAN :
       /\ IF startCircuitInvokes(connected)
            THEN /\ invokes' = invokes + 1
                 /\ pendingStarts' = pendingStarts + 1
            ELSE UNCHANGED <<invokes, pendingStarts>>
       /\ lastCall' = [n |-> lastCall.n + 1, op |-> "startCircuit",
                       connected |-> connected, arg |-> Undefined,
                       outcome |-> IF startCircuitInvokes(connected)
                                     THEN Pending ELSE False]
  /\ opCount' = opCount + 1
  /\ UNCHANGED <<circuitId, initLog>>

\* The remote StartCircuit call of one awaiting startCircuit completes.
StartCircuitReturns ==
  /\ pendingStarts > 0
  /\ pendingStarts' = pendingStarts - 1
  /\ \E result \in CircuitIds \cup {Undefined, Rejected} :
       IF result = Rejected
         THEN /\ lastCall' = [n |-> lastCall.n + 1, op |-> "startCircuitReturns",
                              connected |-> TRUE, arg |-> result, outcome |-> Rejected]
              /\ UNCHANGED <<circuitId, initLog>>
         ELSE LET r == startCircuitResume(circuitId, result)
              IN /\ circuitId' = r.circuitId
                 /\ initLog' = IF r.initialized
                                 THEN Append(initLog, [id |-> result,
                                                       ok |-> r.outcome # Threw])
                                 ELSE initLog
                 /\ lastCall' = [n |-> lastCall.n + 1, op |-> "startCircuitReturns",
                                 connected |-> TRUE, arg |-> result,
                                 outcome |-> r.outcome]
  /\ UNCHANGED <<invokes, opCount>>

\* A caller calls reconnect(reconnection).
Reconnect ==
  /\ opCount < MaxCircuitOps
  /\ \E connected \in BOOLEAN, remote \in {True, False, Rejected} :
       LET r == reconnect(circuitId, connected, remote)
       IN /\ invokes' = IF r.invoked THEN invokes + 1 ELSE invokes
          /\ lastCall' = [n |-> lastCall.n + 1, op |-> "reconnect",
                          connected |-> connected, arg |-> remote,
                          outcome |-> r.outcome]
  /\ opCount' = opCount + 1
  /\ UNCHANGED <<circuitId, pendingStarts, initLog>>

CircuitNext ==
  \/ Initialize /\ UNCHANGED <<bootVars, mergeVars, discoveryVars, persistedVars, registryVars>>
  \/ StartCircuit /\ UNCHANGED <<bootVars, mergeVars, discoveryVars, persistedVars, registryVars>>
  \/ StartCircuitReturns /\ UNCHANGED <<bootVars, mergeVars, discoveryVars, persistedVars, registryVars>>
  \/ Reconnect /\ UNCHANGED <<bootVars, mergeVars, discoveryVars, persistedVars, registryVars>>

(***************************************************************************)
(* Component descriptors and merge.                                        *)
(***************************************************************************)
\* No node: an undefined start or end.
NoNode == <<>>

\* Comment nodes a descriptor may be anchored to, each named by its path.
AnchorNodes == {<<1>>, <<2>>}

SequenceNumbers == {0, 1}

ServerComponentDescriptors ==
  [type : {"server"}, start : AnchorNodes, end : AnchorNodes \cup {NoNode},
   sequence : SequenceNumbers, descriptor : {"d1", "d2"}]

\* The constructor never assigns end: it stays undefined.
WebAssemblyComponentDescriptors ==
  [type : {"webassembly"}, start : AnchorNodes, end : {NoNode},
   id : {1, 2}, assembly : {"a1", "a2"}, typeName : {"t1", "t2"},
   parameterDefinitions : {Undefined, "p1"}, parameterValues : {Undefined, "v1"}]

ComponentDescriptors == ServerComponentDescriptors \cup WebAssemblyComponentDescriptors

\* ServerComponentDescriptor.merge also taking over the other's start.
ServerMergeReplacingStart(this, other) ==
  IF this.type # other.type
    THEN [threw |-> TRUE, this |-> this]
    ELSE [threw |-> FALSE,
          this |-> [this EXCEPT !.start = other.start, !.end = other.end,
                                !.sequence = other.sequence,
                                !.descriptor = other.descriptor]]

\* ServerComponentDescriptor.merge(other).
ServerMerge(this, other) ==
  IF this.type # other.type
    THEN [threw |-> TRUE, this |-> this]
    ELSE [threw |-> FALSE,
          this |-> [this EXCEPT !.end = other.end,
                                !.sequence = other.sequence,
                                !.descriptor = other.descriptor]]

\* WebAssemblyComponentDescriptor.merge without the assembly test.
WebAssemblyMergeNoAssemblyTest(this, other) ==
  IF this.type # other.type
    THEN [threw |-> TRUE, this |-> this]
    ELSE IF this.typeName # other.typeName
      THEN [threw |-> TRUE, this |-> this]
      ELSE [threw |-> FALSE,
            this |-> [this EXCEPT !.parameterDefinitions = other.parameterDefinitions,
                                  !.parameterValues = other.parameterValues,
                                  !.id = other.id]]

\* WebAssemblyComponentDescriptor.merge(other); end is not assigned.
WebAssemblyMerge(this, other) ==
  IF this.type # other.type
    THEN [threw |-> TRUE, this |-> this]
    ELSE IF this.typeName # other.typeName
      THEN [threw |-> TRUE, this |-> this]
      ELSE IF this.assembly # other.assembly
        THEN [threw |-> TRUE, this |-> this]
        ELSE [threw |-> FALSE,
              this |-> [this EXCEPT !.parameterDefinitions = other.parameterDefinitions,
                                    !.parameterValues = other.parameterValues,
                                    !.id = other.id]]

MergeInit ==
  /\ existing \in ComponentDescriptors
  /\ incoming \in ComponentDescriptors
  /\ mergeOutcome = Undefined

\* existing.merge(incoming).
Merge ==
  /\ mergeOutcome = Undefined
  /\ LET r == IF existing.type = "server"
                THEN ServerMerge(existing, incoming)
                ELSE WebAssemblyMerge(existing, incoming)
     IN /\ existing' = r.this
        /\ mergeOutcome' = IF r.threw THEN Threw ELSE "merged"
  /\ UNCHANGED incoming

\* A later scan yields the next descriptor to merge.
NextIncoming ==
  /\ mergeOutcome # Undefined
  /\ incoming' \in ComponentDescriptors
  /\ mergeOutcome' = Undefined
  /\ UNCHANGED existing

MergeNext ==
  \/ Merge /\ UNCHANGED <<bootVars, circuitVars, discoveryVars, persistedVars, registryVars>>
  \/ NextIncoming /\ UNCHANGED <<bootVars, circuitVars, discoveryVars, persistedVars, registryVars>>

(***************************************************************************)
(* The DOM handed to discovery.  A node is a comment that is no component  *)
(* marker, a marker (a comment "Blazor:{...}" with its JSON payload, a     *)
(* record) or an element with child nodes; an element without children     *)
(* stands for any node that is no comment and has no child nodes, a text   *)
(* node included.  A node is named by its path: the child indices leading  *)
(* to it from the root.                                                    *)
(***************************************************************************)
PrerenderIds == {"X", "Y"}

CommentNode == [kind |-> "comment"]

Marker(payload) == [kind |-> "marker", payload |-> payload]

Element(children) == [kind |-> "element", children |-> children]

\* Payloads of open markers of type server: without prerenderId under each sequence
\* number, and with a prerenderId.
ServerPayloads ==
  [type : {"server"}, sequence : SequenceNumbers, descriptor : {"AAA"}]
    \cup [type : {"server"}, sequence : {0}, descriptor : {"AAA"},
          prerenderId : {"X"}]

\* Payloads of open markers of type webassembly, without and with a prerenderId.
WebAssemblyPayloads ==
  [type : {"webassembly"}, assembly : {"asm"}, typeName : {"T"}]
    \cup [type : {"webassembly"}, assembly : {"asm"}, typeName : {"T"},
          prerenderId : {"Y"}]

\* Payloads of close markers.
EndPayloads == [prerenderId : PrerenderIds]

LeafNodes ==
  {CommentNode}
    \cup {Marker(p) : p \in ServerPayloads \cup WebAssemblyPayloads \cup EndPayloads}

\* Every node that with its subtree counts exactly n nodes, n > 0, and every node
\* list of exactly n nodes in all: a first node followed by the remaining list.
RECURSIVE NodesOfSize(_)
RECURSIVE NodeListsOfSize(_)
NodesOfSize(n) ==
  IF n = 1
    THEN LeafNodes \cup {Element(<<>>)}
    ELSE {Element(c) : c \in NodeListsOfSize(n - 1)}

NodeListsOfSize(n) ==
  IF n = 0
    THEN {<<>>}
    ELSE UNION {{<<x>> \o rest : x \in NodesOfSize(t),
                                 rest \in NodeListsOfSize(n - t)} : t \in 1..n}

\* Every node list of at most n nodes in all.
NodeLists(n) == UNION {NodeListsOfSize(k) : k \in 0..n}

\* The same over any set of leaf nodes.
RECURSIVE NodesOfSizeOver(_, _)
RECURSIVE NodeListsOfSizeOver(_, _)
NodesOfSizeOver(leaves, n) ==
  IF n = 1
    THEN leaves \cup {Element(<<>>)}
    ELSE {Element(c) : c \in NodeListsOfSizeOver(leaves, n - 1)}

NodeListsOfSizeOver(leaves, n) ==
  IF n = 0
    THEN {<<>>}
    ELSE UNION {{<<x>> \o rest : x \in NodesOfSizeOver(leaves, t),
                                 rest \in NodeListsOfSizeOver(leaves, n - t)} :
                t \in 1..n}

NodeListsOver(leaves, n) == UNION {NodeListsOfSizeOver(leaves, k) : k \in 0..n}

\* The child list of the node at path, the root's own for the empty path.
RECURSIVE ChildNodes(_, _)
ChildNodes(nodes, path) ==
  IF path = <<>>
    THEN nodes
    ELSE ChildNodes(nodes[Head(path)].children, Tail(path))

\* The node at a non-empty path.
NodeAt(nodes, path) ==
  ChildNodes(nodes, SubSeq(path, 1, Len(path) - 1))[path[Len(path)]]

\* Every path of the subtree below prefix, whose child list is nodes.
RECURSIVE Paths(_, _)
Paths(nodes, prefix) ==
  UNION {{Append(prefix, i)} \cup
           (IF nodes[i].kind = "element"
              THEN Paths(nodes[i].children, Append(prefix, i)) ELSE {}) :
         i \in 1..Len(nodes)}

(***************************************************************************)
(* Discovery.                                                              *)
(***************************************************************************)
ErrMalformed == "Found malformed component comment"
ErrOnDocument == "Root components cannot be marked as interactive"
ErrInvalidType == "Invalid component type"
ErrNoEnd == "Could not find an end component comment"
ErrInvalidEnd == "Invalid end of component comment"
ErrEndWithoutId == "End of component comment must have a value for the prerendered property"
ErrEndMismatch == "End of component comment prerendered property must match"
ErrNoDescriptor == "descriptor must be defined when using a descriptor"
ErrNoSequence == "sequence must be defined when using a descriptor"
ErrSequence == "Error parsing the sequence"
ErrNoAssembly == "assembly must be defined when using a descriptor"
ErrNoTypeName == "typeName must be defined when using a descriptor"

\* payload.key, undefined when the JSON object has no such key.
Get(payload, key) == IF key \in DOMAIN payload THEN payload[key] ELSE Undefined

\* Node.hasChildNodes()
hasChildNodes(node) == node.kind = "element" /\ node.children # <<>>

\* parseCommentPayload: the error it throws, Undefined when it returns the payload.
parseCommentPayload(payload) ==
  IF Get(payload, "type") \notin {"server", "webassembly"}
    THEN ErrInvalidType
    ELSE Undefined

\* validateEndComponentPayload without the comparison of the two prerender ids.
validateEndAnyPrerenderId(payload, prerenderedId) ==
  IF Cardinality(DOMAIN payload) # 1
    THEN ErrInvalidEnd
    ELSE IF Falsy(Get(payload, "prerenderId"))
      THEN ErrEndWithoutId
      ELSE Undefined

\* validateEndComponentPayload: the error it throws, Undefined when it returns.
validateEndComponentPayload(payload, prerenderedId) ==
  IF Cardinality(DOMAIN payload) # 1
    THEN ErrInvalidEnd
    ELSE IF Falsy(Get(payload, "prerenderId"))
      THEN ErrEndWithoutId
      ELSE IF Get(payload, "prerenderId") # prerenderedId
        THEN ErrEndMismatch
        ELSE Undefined

\* getComponentEndComment(prerenderedId, iterator), the iterator standing on index i:
\* the index of the end comment (0 when the list is exhausted), the error
\* thrown, and where the iterator stands afterwards.
RECURSIVE getComponentEndComment(_, _, _)
getComponentEndComment(prerenderedId, nodes, i) ==
  IF i + 1 > Len(nodes)
    THEN [end |-> 0, error |-> Undefined, cursor |-> i + 1]
    ELSE IF nodes[i + 1].kind # "marker"
      THEN getComponentEndComment(prerenderedId, nodes, i + 1)
      ELSE [end |-> IF validateEndComponentPayload(nodes[i + 1].payload,
                                                   prerenderedId) = Undefined
                      THEN i + 1 ELSE 0,
            error |-> validateEndComponentPayload(nodes[i + 1].payload, prerenderedId),
            cursor |-> i + 1]

\* The pairing without the test for a missing end comment.
neverThrowIfNoEnd(e) == e

\* if (prerenderId && !end) throw: e is what getComponentEndComment returned.
throwIfNoEnd(e) ==
  IF e.error = Undefined /\ e.end = 0
    THEN [e EXCEPT !.error = ErrNoEnd]
    ELSE e

\* The pairing done with a cursor of its own: the scan's cursor stays on the open
\* marker.
pairEndCommentOwnCursor(payload, nodes, i) ==
  IF ~Falsy(Get(payload, "prerenderId"))
    THEN [throwIfNoEnd(getComponentEndComment(payload.prerenderId, nodes, i))
            EXCEPT !.cursor = i]
    ELSE [end |-> 0, error |-> Undefined, cursor |-> i]

\* The pairing both create...ComponentComment functions start with.
pairEndComment(payload, nodes, i) ==
  IF ~Falsy(Get(payload, "prerenderId"))
    THEN throwIfNoEnd(getComponentEndComment(payload.prerenderId, nodes, i))
    ELSE [end |-> 0, error |-> Undefined, cursor |-> i]

\* A result of a create...ComponentComment function that holds no comment.
NoComment(error, cursor) == [error |-> error, found |-> FALSE, cursor |-> cursor]

\* createServerComponentComment after the pairing, without the descriptor test.
serverComponentCommentAnyDescriptor(payload, path, i, e) ==
  IF e.error # Undefined
    THEN NoComment(e.error, e.cursor)
    ELSE IF payload.type # "server"
      THEN NoComment(Undefined, e.cursor)
      ELSE IF "sequence" \notin DOMAIN payload
        THEN NoComment(ErrNoSequence, e.cursor)
        ELSE [error |-> Undefined, found |-> TRUE, cursor |-> e.cursor,
              comment |->
                [type |-> "server",
                 sequence |-> payload.sequence,
                 descriptor |-> Get(payload, "descriptor"),
                 start |-> Append(path, i),
                 prerenderId |-> Get(payload, "prerenderId"),
                 end |-> IF e.end = 0 THEN NoNode ELSE Append(path, e.end)]]

\* createServerComponentComment after the pairing, which gave e.
serverComponentComment(payload, path, i, e) ==
  IF e.error # Undefined
    THEN NoComment(e.error, e.cursor)
    ELSE IF payload.type # "server"
      THEN NoComment(Undefined, e.cursor)
      ELSE IF Falsy(Get(payload, "descriptor"))
        THEN NoComment(ErrNoDescriptor, e.cursor)
        ELSE IF "sequence" \notin DOMAIN payload
          THEN NoComment(ErrNoSequence, e.cursor)
          ELSE IF payload.sequence \notin Int
            THEN NoComment(ErrSequence, e.cursor)
            ELSE [error |-> Undefined, found |-> TRUE, cursor |-> e.cursor,
                  comment |->
                    [type |-> "server",
                     sequence |-> payload.sequence,
                     descriptor |-> payload.descriptor,
                     start |-> Append(path, i),
                     prerenderId |-> Get(payload, "prerenderId"),
                     end |-> IF e.end = 0 THEN NoNode ELSE Append(path, e.end)]]

\* createServerComponentComment(payload, start, iterator), start being nodes[i] at path.
createServerComponentComment(payload, nodes, path, i) ==
  serverComponentComment(payload, path, i, pairEndComment(payload, nodes, i))

\* createWebAssemblyComponentComment after the pairing, which gave e.
webAssemblyComponentComment(payload, path, i, e) ==
  IF e.error # Undefined
    THEN NoComment(e.error, e.cursor)
    ELSE IF payload.type # "webassembly"
      THEN NoComment(Undefined, e.cursor)
      ELSE IF Falsy(Get(payload, "assembly"))
        THEN NoComment(ErrNoAssembly, e.cursor)
        ELSE IF Falsy(Get(payload, "typeName"))
          THEN NoComment(ErrNoTypeName, e.cursor)
          ELSE [error |-> Undefined, found |-> TRUE, cursor |-> e.cursor,
                comment |->
                  [type |-> "webassembly",
                   assembly |-> payload.assembly,
                   typeName |-> payload.typeName,
                   parameterDefinitions |-> Get(payload, "parameterDefinitions"),
                   parameterValues |-> Get(payload, "parameterValues"),
                   start |-> Append(path, i),
                   prerenderId |-> Get(payload, "prerenderId"),
                   end |-> IF e.end = 0 THEN NoNode ELSE Append(path, e.end)]]

\* createWebAssemblyComponentComment(payload, start, iterator).
createWebAssemblyComponentComment(payload, nodes, path, i) ==
  webAssemblyComponentComment(payload, path, i, pairEndComment(payload, nodes, i))

\* The try/catch of getComponentComment around parsing and creation: whatever was
\* thrown inside is replaced by the malformed-comment error.
catchMalformed(c, i) ==
  IF c.error # Undefined THEN NoComment(ErrMalformed, i) ELSE c

\* getComponentComment with the document test made after parsing and creation.
getComponentCommentParsingFirst(nodes, path, i, type, onDocument) ==
  IF nodes[i].kind # "marker"
    THEN NoComment(Undefined, i)
    ELSE IF catchMalformed(
              IF parseCommentPayload(nodes[i].payload) # Undefined
                THEN NoComment(parseCommentPayload(nodes[i].payload), i)
                ELSE IF type = "webassembly"
                  THEN createWebAssemblyComponentComment(nodes[i].payload, nodes, path, i)
                  ELSE createServerComponentComment(nodes[i].payload, nodes, path, i),
              i).error # Undefined
      THEN NoComment(ErrMalformed, i)
      ELSE NoComment(ErrOnDocument, i)

\* getComponentComment(commentNodeIterator, type), the iterator standing on index i of
\* the child list of the node at path; onDocument: that node is the Document.
getComponentComment(nodes, path, i, type, onDocument) ==
  IF nodes[i].kind # "marker"
    THEN NoComment(Undefined, i)
    ELSE IF onDocument
      THEN NoComment(ErrOnDocument, i)
      ELSE catchMalformed(
             IF parseCommentPayload(nodes[i].payload) # Undefined
               THEN NoComment(parseCommentPayload(nodes[i].payload), i)
               ELSE IF type = "webassembly"
                 THEN createWebAssemblyComponentComment(nodes[i].payload, nodes, path, i)
                 ELSE createServerComponentComment(nodes[i].payload, nodes, path, i),
             i)

NoComments == [error |-> Undefined, comments |-> <<>>]

\* The comments found at one position followed by those found after it; an error
\* thrown at either ends the scan.
thenComments(here, rest) ==
  IF here.error # Undefined
    THEN [error |-> here.error, comments |-> <<>>]
    ELSE IF rest.error # Undefined
      THEN [error |-> rest.error, comments |-> <<>>]
      ELSE [error |-> Undefined, comments |-> here.comments \o rest.comments]

\* resolveComponentComments from the iterator's position i on (resolveFrom), and the
\* body of its loop once getComponentComment has returned c (resolveAt): push the
\* comment, or recurse into the children of the iterator's current element.
RECURSIVE resolveFrom(_, _, _, _, _, _)
RECURSIVE resolveAt(_, _, _, _, _, _)
resolveAt(nodes, path, type, directChildrenOnly, onDocument, c) ==
  IF c.error # Undefined
    THEN [error |-> c.error, comments |-> <<>>]
    ELSE thenComments(
           IF c.found
             THEN [error |-> Undefined, comments |-> <<c.comment>>]
             ELSE IF ~directChildrenOnly /\ hasChildNodes(nodes[c.cursor])
               THEN resolveFrom(nodes[c.cursor].children, Append(path, c.cursor), 1,
                                type, FALSE, FALSE)
               ELSE NoComments,
           resolveFrom(nodes, path, c.cursor + 1, type, directChildrenOnly,
                       onDocument))

resolveFrom(nodes, path, i, type, directChildrenOnly, onDocument) ==
  IF i > Len(nodes)
    THEN NoComments
    ELSE resolveAt(nodes, path, type, directChildrenOnly, onDocument,
                   getComponentComment(nodes, path, i, type, onDocument))

\* resolveComponentComments(nodes, type, directChildrenOnly) on the root's child list.
resolveComponentComments(nodes, type, directChildrenOnly, onDocument) ==
  resolveFrom(nodes, <<>>, 1, type, directChildrenOnly, onDocument)

\* s with x inserted behind every element whose key is not greater: one step of a
\* stable sort with the comparator (a, b) => a[key] - b[key].
RECURSIVE InsertByKey(_, _, _)
InsertByKey(s, x, key) ==
  IF s = <<>>
    THEN <<x>>
    ELSE IF x[key] < Head(s)[key]
      THEN <<x>> \o s
      ELSE <<Head(s)>> \o InsertByKey(Tail(s), x, key)

\* Array.prototype.sort((a, b) => a[key] - b[key]): a stable sort.
RECURSIVE SortByKey(_, _)
SortByKey(s, key) ==
  IF s = <<>>
    THEN <<>>
    ELSE InsertByKey(SortByKey(SubSeq(s, 1, Len(s) - 1), key), s[Len(s)], key)

\* new ServerComponentDescriptor(type, start, end, sequence, descriptor)
ServerComponentDescriptor(c) ==
  [type |-> c.type, start |-> c.start, end |-> c.end,
   sequence |-> c.sequence, descriptor |-> c.descriptor]

\* The constructor with the assignment of end in force.
WebAssemblyComponentDescriptorAssigningEnd(c, id) ==
  [type |-> c.type, start |-> c.start, end |-> c.end, id |-> id,
   assembly |-> c.assembly, typeName |-> c.typeName,
   parameterDefinitions |-> c.parameterDefinitions,
   parameterValues |-> c.parameterValues]

\* new WebAssemblyComponentDescriptor(...) when globalId is id; end is not assigned.
WebAssemblyComponentDescriptor(c, id) ==
  [type |-> c.type, start |-> c.start, end |-> NoNode, id |-> id,
   assembly |-> c.assembly, typeName |-> c.typeName,
   parameterDefinitions |-> c.parameterDefinitions,
   parameterValues |-> c.parameterValues]

\* The loop of discoverServerComponents over the comments r, returned unsorted.
serverDescriptorsUnsorted(r) ==
  IF r.error # Undefined
    THEN [error |-> r.error, components |-> <<>>]
    ELSE [error |-> Undefined,
          components |-> [k \in 1..Len(r.comments) |->
                            ServerComponentDescriptor(r.comments[k])]]

\* The loop and the sort of discoverServerComponents over the comments r.
serverDescriptors(r) ==
  IF r.error # Undefined
    THEN [error |-> r.error, components |-> <<>>]
    ELSE [error |-> Undefined,
          components |->
            SortByKey([k \in 1..Len(r.comments) |->
                         ServerComponentDescriptor(r.comments[k])], "sequence")]

\* discoverServerComponents(nodes, directChildrenOnly)
discoverServerComponents(nodes, directChildrenOnly, onDocument) ==
  serverDescriptors(
    resolveComponentComments(nodes, "server", directChildrenOnly, onDocument))

\* The loop and the sort of discoverWebAssemblyComponents over the comments r,
\* globalId being id.
webAssemblyDescriptors(r, id) ==
  IF r.error # Undefined
    THEN [error |-> r.error, components |-> <<>>]
    ELSE [error |-> Undefined,
          components |->
            SortByKey([k \in 1..Len(r.comments) |->
                         WebAssemblyComponentDescriptor(r.comments[k], id + k - 1)],
                      "id")]

\* discoverWebAssemblyComponents(nodes, directChildrenOnly), globalId being id.
discoverWebAssemblyComponents(nodes, directChildrenOnly, onDocument, id) ==
  webAssemblyDescriptors(
    resolveComponentComments(nodes, "webassembly", directChildrenOnly, onDocument),
    id)

\* discoverComponents(root, type, directChildrenOnly), nodes being root.childNodes.
discoverComponents(nodes, type, directChildrenOnly, onDocument, id) ==
  IF nodes = <<>>
    THEN [error |-> Undefined, components |-> <<>>]
    ELSE IF type = "webassembly"
      THEN discoverWebAssemblyComponents(nodes, directChildrenOnly, onDocument, id)
      ELSE discoverServerComponents(nodes, directChildrenOnly, onDocument)

\* discoverComponents has not been called.
NoDiscovery ==
  [called |-> FALSE, type |-> Undefined, directChildrenOnly |-> FALSE,
   error |-> Undefined, components |-> <<>>]

\* The subtree is any node list of at most MaxNodes nodes, drawn as its first node
\* and what follows it.
DiscoveryInit ==
  /\ \/ dom = <<>>
     \/ \E t \in 1..MaxNodes :
          \E x \in NodesOfSize(t), rest \in NodeLists(MaxNodes - t) :
            dom = <<x>> \o rest
  /\ rootIsDocument \in BOOLEAN
  /\ globalId = 1
  /\ discovery = NoDiscovery

\* The record of a discoverComponents call that returned or threw r.
Discovered(type, directChildrenOnly, r) ==
  [called |-> TRUE, type |-> type, directChildrenOnly |-> directChildrenOnly,
   error |-> r.error, components |-> r.components]

\* One discovery pass over the subtree.
Discover ==
  /\ ~discovery.called
  /\ \E type \in {"server", "webassembly"}, directChildrenOnly \in BOOLEAN :
       discovery' = Discovered(type, directChildrenOnly,
                               discoverComponents(dom, type, directChildrenOnly,
                                                  rootIsDocument, globalId))
  /\ globalId' = IF discovery'.type = "webassembly"
                   THEN globalId + Len(discovery'.components) ELSE globalId
  /\ UNCHANGED <<dom, rootIsDocument>>

DiscoveryNext ==
  /\ Discover
  /\ UNCHANGED <<bootVars, circuitVars, mergeVars, persistedVars, registryVars>>

(***************************************************************************)
(* Discovery over subtrees that hold malformed markers.                    *)
(***************************************************************************)
\* Payloads that declare an unknown type or none, or lack a field their type needs.
MalformedPayloads ==
  {[type |-> "auto", sequence |-> 0, descriptor |-> "AAA"],
   [sequence |-> 0, descriptor |-> "AAA"],
   [type |-> "server", sequence |-> 0],
   [type |-> "server", descriptor |-> "AAA"],
   [type |-> "webassembly", typeName |-> "T"],
   [type |-> "webassembly", assembly |-> "asm"]}

\* Payloads of a well-formed marker and of a prerendered pair.
WellFormedPayloads ==
  {[type |-> "server", sequence |-> 0, descriptor |-> "AAA"],
   [type |-> "server", sequence |-> 0, descriptor |-> "AAA", prerenderId |-> "X"],
   [prerenderId |-> "X"]}

MalformedLeafNodes == {Marker(p) : p \in MalformedPayloads \cup WellFormedPayloads}

\* The subtree is any node list of at most MaxNodes nodes over these markers, below
\* a root that is not the document.
MalformedInit ==
  /\ \/ dom = <<>>
     \/ \E t \in 1..MaxNodes :
          \E x \in NodesOfSizeOver(MalformedLeafNodes, t),
             rest \in NodeListsOver(MalformedLeafNodes, MaxNodes - t) :
            dom = <<x>> \o rest
  /\ rootIsDocument = FALSE
  /\ globalId = 1
  /\ discovery = NoDiscovery

\* One discovery pass over the whole subtree: directChildrenOnly is left out.
DiscoverWholeSubtree ==
  /\ ~discovery.called
  /\ \E type \in {"server", "webassembly"} :
       discovery' = Discovered(type, FALSE,
                               discoverComponents(dom, type, FALSE, rootIsDocument,
                                                  globalId))
  /\ globalId' = IF discovery'.type = "webassembly"
                   THEN globalId + Len(discovery'.components) ELSE globalId
  /\ UNCHANGED <<dom, rootIsDocument>>

MalformedNext ==
  /\ DiscoverWholeSubtree
  /\ UNCHANGED <<bootVars, circuitVars, mergeVars, persistedVars, registryVars>>

(***************************************************************************)
(* Discovery over subtrees of prerendered components: open markers with a  *)
(* prerenderId of either kind, one of them lacking a required field, their *)
(* close marker, and a marker without prerenderId.                         *)
(***************************************************************************)
PairingPayloads ==
  {[type |-> "server", sequence |-> 0, descriptor |-> "AAA", prerenderId |-> "X"],
   [type |-> "server", sequence |-> 0, prerenderId |-> "X"],
   [type |-> "webassembly", assembly |-> "asm", typeName |-> "T", prerenderId |-> "X"],
   [type |-> "server", sequence |-> 1, descriptor |-> "AAA"],
   [prerenderId |-> "X"]}

PairingLeafNodes == {CommentNode} \cup {Marker(p) : p \in PairingPayloads}

\* The subtree is any node list of at most MaxNodes nodes over these nodes, below a
\* root that is not the document.
PairingInit ==
  /\ \/ dom = <<>>
     \/ \E t \in 1..MaxNodes :
          \E x \in NodesOfSizeOver(PairingLeafNodes, t),
             rest \in NodeListsOver(PairingLeafNodes, MaxNodes - t) :
            dom = <<x>> \o rest
  /\ rootIsDocument = FALSE
  /\ globalId = 1
  /\ discovery = NoDiscovery

(***************************************************************************)
(* Persisted state.  The subtree searched holds comments that are no state *)
(* comment, state comments "Blazor-Component-State:<value>" and elements.  *)
(***************************************************************************)
PersistedStates == {"s1", "s2"}

StateComment(value) == [kind |-> "state", value |-> value]

PersistedLeafNodes == {CommentNode} \cup {StateComment(v) : v \in PersistedStates}

\* node.parentNode?.removeChild(node) left out.
removeNoChild(nodes, index) == nodes

\* node.parentNode?.removeChild(node), node being nodes[index].
removeChild(nodes, index) ==
  SubSeq(nodes, 1, index - 1) \o SubSeq(nodes, index + 1, Len(nodes))

\* discoverPersistedState(node) for a comment node: the value of the state group,
\* undefined when the comment does not match; removed says the node removed itself.
persistedStateOfComment(node) ==
  IF node.kind = "state"
    THEN [value |-> node.value, removed |-> TRUE, node |-> node]
    ELSE [value |-> Undefined, removed |-> FALSE, node |-> node]

\* The loop over node.childNodes from index on (persistedStateFrom), its body once
\* the recursive call on the candidate has returned r (persistedStateAfter), and
\* discoverPersistedState(node) itself (persistedStateOf).
RECURSIVE persistedStateFrom(_, _)
RECURSIVE persistedStateOf(_)
persistedStateAfter(nodes, index, r) ==
  IF ~Falsy(r.value)
    THEN [value |-> r.value,
          nodes |-> IF r.removed
                      THEN removeChild(nodes, index)
                      ELSE [nodes EXCEPT ![index] = r.node]]
    ELSE persistedStateFrom(nodes, index + 1)

persistedStateFrom(nodes, index) ==
  IF index > Len(nodes)
    THEN [value |-> Undefined, nodes |-> nodes]
    ELSE persistedStateAfter(nodes, index, persistedStateOf(nodes[index]))

\* The result for an element whose child list was searched with result r.
persistedStateOfElement(r) ==
  [value |-> r.value, removed |-> FALSE, node |-> Element(r.nodes)]

persistedStateOf(node) ==
  IF node.kind # "element"
    THEN persistedStateOfComment(node)
    ELSE IF ~hasChildNodes(node)
      THEN [value |-> Undefined, removed |-> FALSE, node |-> node]
      ELSE persistedStateOfElement(persistedStateFrom(node.children, 1))

\* discoverPersistedState(node) for a node that is no comment, nodes being
\* node.childNodes: what it returns and the child nodes it leaves.
discoverPersistedState(nodes) ==
  IF nodes = <<>>
    THEN [value |-> Undefined, nodes |-> nodes]
    ELSE persistedStateFrom(nodes, 1)

\* discoverPersistedState has not been called.
NotCalled == "not called"

PersistedInit ==
  /\ persistedDom \in NodeListsOver(PersistedLeafNodes, MaxNodes)
  /\ persistedResult = NotCalled
  /\ persistedCalls = 0

\* The record of a call that returned r.
PersistedReturned(r) ==
  /\ persistedResult' = r.value
  /\ persistedDom' = r.nodes

DiscoverPersistedState ==
  /\ persistedCalls < MaxPersistedCalls
  /\ persistedCalls' = persistedCalls + 1
  /\ PersistedReturned(discoverPersistedState(persistedDom))

PersistedNext ==
  /\ DiscoverPersistedState
  /\ UNCHANGED <<bootVars, circuitVars, mergeVars, discoveryVars, registryVars>>

(***************************************************************************)
(* Specifications.                                                         *)
(***************************************************************************)
\* No merge under way.
MergeIdle ==
  /\ existing = Undefined
  /\ incoming = Undefined
  /\ mergeOutcome = Undefined

\* No discovery under way.
DiscoveryIdle ==
  /\ dom = <<>>
  /\ rootIsDocument = FALSE
  /\ globalId = 1
  /\ discovery = NoDiscovery

\* No search for persisted state under way.
PersistedIdle ==
  /\ persistedDom = <<>>
  /\ persistedResult = NotCalled
  /\ persistedCalls = 0

Init == BootInit /\ RegistryInit /\ CircuitInit /\ MergeIdle /\ DiscoveryIdle /\ PersistedIdle

Next == BootNext

Spec == Init /\ [][Next]_vars

SpecAuto == Init /\ [][AutoNext]_vars

SpecCircuit == Init /\ [][CircuitNext]_vars

MergeSpecInit ==
  BootInit /\ RegistryInit /\ CircuitInit /\ MergeInit /\ DiscoveryIdle /\ PersistedIdle

SpecMerge == MergeSpecInit /\ [][MergeNext]_vars

DiscoverySpecInit ==
  BootInit /\ RegistryInit /\ CircuitInit /\ MergeIdle /\ DiscoveryInit /\ PersistedIdle

SpecDiscovery == DiscoverySpecInit /\ [][DiscoveryNext]_vars

MalformedSpecInit ==
  BootInit /\ RegistryInit /\ CircuitInit /\ MergeIdle /\ MalformedInit /\ PersistedIdle

SpecMalformed == MalformedSpecInit /\ [][MalformedNext]_vars

PairingSpecInit ==
  BootInit /\ RegistryInit /\ CircuitInit /\ MergeIdle /\ PairingInit /\ PersistedIdle

SpecPairing == PairingSpecInit /\ [][DiscoveryNext]_vars

PersistedSpecInit ==
  BootInit /\ RegistryInit /\ CircuitInit /\ MergeIdle /\ DiscoveryIdle /\ PersistedInit

SpecPersisted == PersistedSpecInit /\ [][PersistedNext]_vars

(***************************************************************************)
(* Properties of the boot orchestrator (Spec).                             *)
(***************************************************************************)
\* C1: whatever triggers arrive and however they interleave with starts in flight,
\* startCircuit, loadWebAssemblyPlatform and startWebAssembly are each issued at most
\* once.
C1_EachStartIssuedAtMostOnce ==
  /\ startCircuitCalls <= 1
  /\ loadCalls <= 1
  /\ startWasmCalls <= 1

\* All three starts were issued, and a second server descriptor arrived while the
\* circuit start was still in flight.
C1_Witness ==
  /\ startCircuitCalls = 1 /\ loadCalls = 1 /\ startWasmCalls = 1
  /\ circuitCall = "pending"
  /\ registered["server"] >= 2

\* C2: of the webassembly descriptors registered while hasWebAssemblyLoaded is still
\* false, the first issues startWebAssembly and every later one issues none, so that
\* exactly one start has been issued after each of them.
C2_OneStartForManyDescriptors ==
  [][(/\ registered'["webassembly"] = registered["webassembly"] + 1
      /\ ~hasWebAssemblyLoaded)
       => /\ startWasmCalls' = startWasmCalls
                                 + (IF registered["webassembly"] = 0 THEN 1 ELSE 0)
          /\ startWasmCalls' = 1]_vars

\* Two webassembly descriptors were registered while the one start was in flight.
C2_Witness ==
  /\ registered["webassembly"] >= 2
  /\ ~hasWebAssemblyLoaded
  /\ wasmCall = "pending"
  /\ startWasmCalls = 1

(***************************************************************************)
(* Properties of the circuit descriptor (SpecCircuit).                     *)
(***************************************************************************)
\* The operation just performed on the descriptor, in an action formula.
Performed(op) == lastCall'.n = lastCall.n + 1 /\ lastCall'.op = op

C4_StartCircuitDisconnected ==
  [][(Performed("startCircuit") /\ ~lastCall'.connected)
       => /\ lastCall'.outcome = False
          /\ invokes' = invokes
          /\ pendingStarts' = pendingStarts
          /\ circuitId' = circuitId
          /\ initLog' = initLog]_vars

\* startCircuit returned false on a disconnected transport, circuitId still unset.
C4_Witness ==
  /\ lastCall.op = "startCircuit"
  /\ ~lastCall.connected
  /\ lastCall.outcome = False
  /\ circuitId = Undefined
  /\ invokes = 0

\* C5 as claimed: every startCircuit whose remote call completes returns false and
\* leaves circuitId alone on an empty result, and returns true with circuitId the
\* result on a non-empty one.
C5_StartCircuitResultAlways ==
  [][(Performed("startCircuitReturns") /\ lastCall'.arg # Rejected)
       => IF Falsy(lastCall'.arg)
            THEN lastCall'.outcome = False /\ circuitId' = circuitId
            ELSE lastCall'.outcome = True /\ circuitId' = lastCall'.arg]_vars

\* C5 amended: as claimed when circuitId is still unset as the remote call completes;
\* on a descriptor that already holds an identity a non-empty result makes startCircuit
\* fail with the already-initialized error, circuitId unchanged.
C5_StartCircuitResult ==
  [][(Performed("startCircuitReturns") /\ lastCall'.arg # Rejected)
       => IF Falsy(lastCall'.arg)
            THEN lastCall'.outcome = False /\ circuitId' = circuitId
            ELSE IF Falsy(circuitId)
              THEN lastCall'.outcome = True /\ circuitId' = lastCall'.arg
              ELSE lastCall'.outcome = Threw /\ circuitId' = circuitId]_vars

\* A startCircuit whose remote call returned an identity failed on a descriptor that
\* already held another one.
C5_Witness ==
  /\ lastCall.op = "startCircuitReturns"
  /\ ~Falsy(lastCall.arg)
  /\ lastCall.outcome = Threw
  /\ ~Falsy(circuitId) /\ circuitId # lastCall.arg

\* C6: reconnect throws when circuitId is unset, whatever the connection state; with
\* circuitId set it returns false without a remote call when not connected, and else
\* what the remote call answers; it never changes the descriptor.
C6_Reconnect ==
  [][Performed("reconnect")
       => /\ circuitId' = circuitId
          /\ pendingStarts' = pendingStarts
          /\ initLog' = initLog
          /\ IF Falsy(circuitId)
               THEN lastCall'.outcome = Threw /\ invokes' = invokes
               ELSE IF ~lastCall'.connected
                 THEN lastCall'.outcome = False /\ invokes' = invokes
                 ELSE lastCall'.outcome = lastCall'.arg /\ invokes' = invokes + 1]_vars

\* reconnect threw on a connected transport because circuitId was unset.
C6_Witness ==
  /\ lastCall.op = "reconnect"
  /\ lastCall.connected
  /\ lastCall.outcome = Threw
  /\ circuitId = Undefined

(***************************************************************************)
(* Properties of merge (SpecMerge).                                        *)
(***************************************************************************)
\* C7: a merge that succeeds keeps the existing descriptor's start and type and takes
\* end, the ordering key (sequence, id) and the payload from the incoming descriptor.
C7_MergeAdoptsIncoming ==
  [][(mergeOutcome = Undefined /\ mergeOutcome' = "merged")
       => /\ existing'.start = existing.start
          /\ existing'.type = existing.type
          /\ existing'.end = incoming.end
          /\ IF existing.type = "server"
               THEN /\ existing'.sequence = incoming.sequence
                    /\ existing'.descriptor = incoming.descriptor
               ELSE /\ existing'.id = incoming.id
                    /\ existing'.assembly = incoming.assembly
                    /\ existing'.typeName = incoming.typeName
                    /\ existing'.parameterDefinitions = incoming.parameterDefinitions
                    /\ existing'.parameterValues = incoming.parameterValues]_vars

\* A server descriptor merged with one anchored elsewhere: it kept its own start and
\* has the other's end, sequence and descriptor.
C7_Witness ==
  /\ mergeOutcome = "merged"
  /\ existing.type = "server"
  /\ existing.start # incoming.start
  /\ existing.end = incoming.end /\ existing.end # NoNode
  /\ existing.sequence = incoming.sequence
  /\ existing.descriptor = incoming.descriptor

\* The two descriptors cannot be merged.
Incompatible(this, other) ==
  \/ this.type # other.type
  \/ /\ this.type = "webassembly"
     /\ (this.assembly # other.assembly \/ this.typeName # other.typeName)

\* C8: merge throws exactly when the types differ or, for webassembly descriptors,
\* assembly or typeName differ; a merge that throws changes no field of the
\* existing descriptor.
C8_MergeFailsUntouched ==
  [][(mergeOutcome = Undefined /\ mergeOutcome' # Undefined)
       => /\ mergeOutcome' = Threw <=> Incompatible(existing, incoming)
          /\ mergeOutcome' = Threw => existing' = existing]_vars

\* A merge of two webassembly descriptors threw because only the assemblies differ.
C8_Witness ==
  /\ mergeOutcome = Threw
  /\ existing.type = "webassembly" /\ incoming.type = "webassembly"
  /\ existing.typeName = incoming.typeName
  /\ existing.assembly # incoming.assembly
  /\ existing.id # incoming.id

(***************************************************************************)
(* Properties of discovery (SpecDiscovery).                                *)
(***************************************************************************)
IsOpenMarker(node) == node.kind = "marker" /\ "type" \in DOMAIN node.payload

HasPrerenderId(node) == "prerenderId" \in DOMAIN node.payload

IsCloseMarkerFor(node, prerenderId) ==
  /\ node.kind = "marker"
  /\ DOMAIN node.payload = {"prerenderId"}
  /\ node.payload.prerenderId = prerenderId

\* The last marker before position i of the list, 0 when there is none.
NearestMarkerBefore(nodes, i) ==
  LET before == {j \in 1..(i - 1) : nodes[j].kind = "marker"}
  IN IF before = {} THEN 0 ELSE CHOOSE j \in before : \A k \in before : k <= j

\* The first marker after position i of the list, 0 when there is none.
NearestMarkerAfter(nodes, i) ==
  LET after == {j \in (i + 1)..Len(nodes) : nodes[j].kind = "marker"}
  IN IF after = {} THEN 0 ELSE CHOOSE j \in after : \A k \in after : j <= k

\* Position i lies behind an open marker with a prerenderId and before the next
\* marker of the list: between the start and the end of a prerendered component.
InsidePrerendered(nodes, i) ==
  LET j == NearestMarkerBefore(nodes, i)
  IN j # 0 /\ IsOpenMarker(nodes[j]) /\ HasPrerenderId(nodes[j])

\* Every marker of the list is an open marker outside any prerendered component,
\* followed by its close marker when it has a prerenderId, or such a close marker.
WellFormedList(nodes) ==
  \A i \in 1..Len(nodes) :
    nodes[i].kind = "marker" =>
      IF IsOpenMarker(nodes[i])
        THEN /\ ~InsidePrerendered(nodes, i)
             /\ HasPrerenderId(nodes[i]) =>
                  /\ NearestMarkerAfter(nodes, i) # 0
                  /\ IsCloseMarkerFor(nodes[NearestMarkerAfter(nodes, i)],
                                      nodes[i].payload.prerenderId)
        ELSE /\ InsidePrerendered(nodes, i)
             /\ nodes[NearestMarkerBefore(nodes, i)].payload.prerenderId
                  = nodes[i].payload.prerenderId

RECURSIVE WellFormedTree(_)
WellFormedTree(nodes) ==
  /\ WellFormedList(nodes)
  /\ \A i \in 1..Len(nodes) :
       nodes[i].kind = "element" => WellFormedTree(nodes[i].children)

\* A well-formed subtree: every node list in it is well formed and no marker hangs
\* directly on the document.
WellFormedSubtree ==
  /\ WellFormedTree(dom)
  /\ ~(rootIsDocument /\ \E i \in 1..Len(dom) : dom[i].kind = "marker")

\* The open markers of the wanted type a scan of a well-formed list has to report:
\* those of the list itself and, unless only direct children are wanted, those of
\* the elements that lie outside every prerendered component.
RECURSIVE MatchingMarkers(_, _, _, _)
MatchingMarkers(nodes, path, type, directChildrenOnly) ==
  {Append(path, i) : i \in {j \in 1..Len(nodes) :
                              IsOpenMarker(nodes[j]) /\ nodes[j].payload.type = type}}
    \cup (IF directChildrenOnly
            THEN {}
            ELSE UNION {MatchingMarkers(nodes[i].children, Append(path, i), type, FALSE) :
                        i \in {j \in 1..Len(nodes) :
                                 nodes[j].kind = "element"
                                   /\ ~InsidePrerendered(nodes, j)}})

\* Path p comes before path q in document order.
RECURSIVE PathBefore(_, _)
PathBefore(p, q) ==
  IF p = <<>> THEN q # <<>>
  ELSE IF q = <<>> THEN FALSE
  ELSE IF Head(p) # Head(q) THEN Head(p) < Head(q)
  ELSE PathBefore(Tail(p), Tail(q))

\* The descriptor carries the fields of the open marker it starts at.
DescribesItsMarker(d) ==
  LET node == NodeAt(dom, d.start)
  IN /\ IsOpenMarker(node)
     /\ node.payload.type = d.type
     /\ IF d.type = "server"
          THEN /\ d.sequence = node.payload.sequence
               /\ d.descriptor = node.payload.descriptor
          ELSE /\ d.assembly = node.payload.assembly
               /\ d.typeName = node.payload.typeName

\* The descriptors are in the documented order: by ascending sequence for server
\* descriptors; by ascending id for webassembly descriptors, the ids being handed
\* out in creation order, which is document order.
InDocumentedOrder(type, components) ==
  \A k, l \in 1..Len(components) :
    k < l =>
      IF type = "server"
        THEN components[k].sequence <= components[l].sequence
        ELSE /\ components[k].id < components[l].id
             /\ PathBefore(components[k].start, components[l].start)

\* C9: on a well-formed subtree discoverComponents returns, and what it returns is
\* exactly one descriptor for each matching marker of the wanted kind, in the
\* documented order.
C9_DiscoveryFindsAllInOrder ==
  discovery.called =>
    /\ WellFormedSubtree => discovery.error = Undefined
    /\ discovery.error = Undefined =>
         LET cs == discovery.components
             wanted == MatchingMarkers(dom, <<>>, discovery.type,
                                       discovery.directChildrenOnly)
         IN /\ {cs[k].start : k \in 1..Len(cs)} = wanted
            /\ Len(cs) = Cardinality(wanted)
            /\ \A k \in 1..Len(cs) : cs[k].type = discovery.type
            /\ \A k \in 1..Len(cs) : DescribesItsMarker(cs[k])
            /\ InDocumentedOrder(discovery.type, cs)

\* Two server descriptors were returned in sequence order against their DOM order.
C9_Witness ==
  /\ discovery.called
  /\ discovery.error = Undefined
  /\ discovery.type = "server"
  /\ WellFormedSubtree
  /\ Len(discovery.components) = 2
  /\ discovery.components[1].sequence < discovery.components[2].sequence
  /\ PathBefore(discovery.components[2].start, discovery.components[1].start)

\* The node at path p is an open marker with a prerenderId that no later sibling
\* closes.
UnterminatedAt(p) ==
  LET siblings == ChildNodes(dom, SubSeq(p, 1, Len(p) - 1))
      i == p[Len(p)]
  IN /\ IsOpenMarker(siblings[i])
     /\ HasPrerenderId(siblings[i])
     /\ ~\E j \in (i + 1)..Len(siblings) :
           IsCloseMarkerFor(siblings[j], siblings[i].payload.prerenderId)

\* The scan gets to the node list of p: p is a direct child when only those are
\* wanted, and no element above p lies inside a prerendered component.
ReachedByScan(p, directChildrenOnly) ==
  /\ directChildrenOnly => Len(p) = 1
  /\ \A k \in 1..(Len(p) - 1) :
       ~InsidePrerendered(ChildNodes(dom, SubSeq(p, 1, k - 1)), p[k])

\* C10 as claimed, whatever error is meant: discovery fails whenever some open
\* marker of the subtree has a prerenderId and no later sibling closing it.
C10_UnterminatedAlwaysFails ==
  (discovery.called /\ \E p \in Paths(dom, <<>>) : UnterminatedAt(p))
    => discovery.error # Undefined

\* C10 amended: discovery fails when such a marker is one the scan gets to; the
\* caller is thrown the malformed-comment error that replaces whatever was thrown
\* while the marker was processed (or, on the document, the root-components error).
C10_ReachedUnterminatedFails ==
  (discovery.called
     /\ \E p \in Paths(dom, <<>>) :
          UnterminatedAt(p) /\ ReachedByScan(p, discovery.directChildrenOnly))
    => /\ discovery.error \in {ErrMalformed, ErrOnDocument}
       /\ ~rootIsDocument => discovery.error = ErrMalformed

\* A search for server components failed on a nested webassembly marker whose
\* prerenderId nothing closes.
C10_Witness ==
  /\ discovery.called
  /\ discovery.type = "server"
  /\ discovery.error = ErrMalformed
  /\ \E p \in Paths(dom, <<>>) :
       /\ Len(p) = 2
       /\ UnterminatedAt(p)
       /\ ReachedByScan(p, discovery.directChildrenOnly)
       /\ NodeAt(dom, p).payload.type = "webassembly"
       /\ \A q \in Paths(dom, <<>>) : NodeAt(dom, q).kind = "marker" => q = p

\* The first direct child of the subtree that is a marker is an open marker with a
\* prerenderId, at position i, and a marker follows it.
FirstMarkerOpensAt(i) ==
  /\ i \in 1..Len(dom)
  /\ IsOpenMarker(dom[i])
  /\ HasPrerenderId(dom[i])
  /\ NearestMarkerBefore(dom, i) = 0
  /\ NearestMarkerAfter(dom, i) # 0

\* C11 as claimed: when the subtree is an open marker with a prerenderId, then nodes
\* none of which closes it, then its close marker, and no node has children, the
\* nodes in between are passed over and discovery does not fail.
C11_OtherMarkersIgnored ==
  (/\ discovery.called
   /\ ~rootIsDocument
   /\ Len(dom) >= 2
   /\ IsOpenMarker(dom[1]) /\ HasPrerenderId(dom[1])
   /\ IsCloseMarkerFor(dom[Len(dom)], dom[1].payload.prerenderId)
   /\ \A j \in 2..(Len(dom) - 1) :
        /\ ~hasChildNodes(dom[j])
        /\ ~IsCloseMarkerFor(dom[j], dom[1].payload.prerenderId))
    => discovery.error = Undefined

\* C11 amended: the first marker comment behind an open marker with a prerenderId
\* has to be its close marker.  A marker with another prerenderId, or an open
\* marker, met first makes discovery fail with the malformed-comment error; only
\* nodes that are no markers are passed over, and then the pair is found.
C11_FirstMarkerBehindMustClose ==
  discovery.called /\ ~rootIsDocument =>
    \A i \in 1..Len(dom) :
      FirstMarkerOpensAt(i) =>
        LET j == NearestMarkerAfter(dom, i)
        IN /\ ~IsCloseMarkerFor(dom[j], dom[i].payload.prerenderId)
                => discovery.error = ErrMalformed
           /\ (/\ IsCloseMarkerFor(dom[j], dom[i].payload.prerenderId)
               /\ i = 1 /\ j = Len(dom)
               /\ discovery.type = dom[i].payload.type)
                => /\ discovery.error = Undefined
                   /\ Len(discovery.components) = 1
                   /\ discovery.components[1].start = <<i>>

\* Discovery failed on an open marker whose close marker is there, behind a close
\* marker with another prerenderId.
C11_Witness ==
  /\ discovery.called
  /\ ~rootIsDocument
  /\ discovery.error = ErrMalformed
  /\ Len(dom) = 3
  /\ FirstMarkerOpensAt(1)
  /\ dom[2].kind = "marker"
  /\ DOMAIN dom[2].payload = {"prerenderId"}
  /\ dom[2].payload.prerenderId # dom[1].payload.prerenderId
  /\ IsCloseMarkerFor(dom[3], dom[1].payload.prerenderId)

\* C12: a marker comment that is a child of the document makes discovery fail and
\* return nothing, whichever kind is searched for; the error is the root-components
\* error whenever the scan of the nodes before the marker did not fail, and it is
\* thrown before the payload is looked at: also for a payload that is malformed.
C12_MarkerOnDocumentFails ==
  discovery.called /\ rootIsDocument =>
    \A i \in 1..Len(dom) :
      dom[i].kind = "marker" =>
        /\ discovery.error # Undefined
        /\ discovery.components = <<>>
        /\ discoverComponents(SubSeq(dom, 1, i - 1), discovery.type,
                              discovery.directChildrenOnly, TRUE, 1).error = Undefined
             => discovery.error = ErrOnDocument

\* Discovery failed with the root-components error on a marker of the document whose
\* payload declares no type, behind an element holding a well-formed marker.
C12_Witness ==
  /\ discovery.called
  /\ rootIsDocument
  /\ ~discovery.directChildrenOnly
  /\ discovery.error = ErrOnDocument
  /\ Len(dom) = 2
  /\ dom[1].kind = "element" /\ Len(dom[1].children) = 1
  /\ IsOpenMarker(dom[1].children[1]) /\ ~HasPrerenderId(dom[1].children[1])
  /\ dom[2].kind = "marker" /\ ~IsOpenMarker(dom[2])

(***************************************************************************)
(* Properties of discoverPersistedState (SpecPersisted).                   *)
(***************************************************************************)
\* The paths of the state comments of a node list.
StateCommentPaths(nodes) ==
  {p \in Paths(nodes, <<>>) : NodeAt(nodes, p).kind = "state"}

\* The first of a non-empty set of paths in depth-first order.
FirstPath(paths) ==
  CHOOSE p \in paths : \A q \in paths \ {p} : PathBefore(p, q)

\* The node list without the node at path p.
RECURSIVE WithoutNodeAt(_, _)
WithoutNodeAt(nodes, p) ==
  IF Len(p) = 1
    THEN [k \in 1..(Len(nodes) - 1) |-> IF k < p[1] THEN nodes[k] ELSE nodes[k + 1]]
    ELSE [nodes EXCEPT ![p[1]] = Element(WithoutNodeAt(nodes[p[1]].children, Tail(p)))]

\* C13: a discoverPersistedState call removes exactly the first state comment in
\* depth-first order and returns its value; when the subtree holds none it returns
\* not-found and leaves the subtree as it was (so a second call on a subtree that
\* held one state comment returns not-found).
C13_RemovesFirstStateComment ==
  [][persistedCalls' = persistedCalls + 1 =>
       IF StateCommentPaths(persistedDom) = {}
         THEN /\ persistedResult' = Undefined
              /\ persistedDom' = persistedDom
         ELSE /\ persistedResult' =
                   NodeAt(persistedDom, FirstPath(StateCommentPaths(persistedDom))).value
              /\ persistedDom' =
                   WithoutNodeAt(persistedDom,
                                 FirstPath(StateCommentPaths(persistedDom)))]_vars

\* A call returned the value of a state comment that is gone from the subtree,
\* while a state comment that came later in depth-first order is still there.
C13_Witness ==
  /\ persistedCalls = 1
  /\ persistedResult = "s2"
  /\ persistedDom = <<Element(<<CommentNode>>), StateComment("s1")>>

(***************************************************************************)
(* Properties of discovery over malformed markers (SpecMalformed).         *)
(***************************************************************************)
\* The marker declares a type that is neither server nor webassembly, or none while
\* being no close marker.
HasBadType(node) ==
  /\ node.kind = "marker"
  /\ Get(node.payload, "type") \notin {"server", "webassembly"}
  /\ DOMAIN node.payload # {"prerenderId"}

\* The marker is of the given kind and lacks a field that kind requires.
LacksFieldOf(node, type) ==
  /\ node.kind = "marker"
  /\ Get(node.payload, "type") = type
  /\ IF type = "server"
       THEN {"descriptor", "sequence"} \ DOMAIN node.payload # {}
       ELSE {"assembly", "typeName"} \ DOMAIN node.payload # {}

\* C14 as claimed: a pass over the whole subtree fails when some marker in it is
\* malformed, wherever it sits and whichever kind is searched for.
C14_MalformedAlwaysAborts ==
  (/\ discovery.called
   /\ ~discovery.directChildrenOnly
   /\ \E p \in Paths(dom, <<>>) :
        \/ HasBadType(NodeAt(dom, p))
        \/ LacksFieldOf(NodeAt(dom, p), "server")
        \/ LacksFieldOf(NodeAt(dom, p), "webassembly"))
    => discovery.error # Undefined

\* C14 amended: the pass fails with the malformed-comment error, returning no
\* descriptor, when a marker the scan gets to declares a bad type, or is of the
\* kind searched for and lacks a required field.
C14_ExaminedMalformedAborts ==
  (/\ discovery.called
   /\ ~discovery.directChildrenOnly
   /\ \E p \in Paths(dom, <<>>) :
        /\ ReachedByScan(p, FALSE)
        /\ \/ HasBadType(NodeAt(dom, p))
           \/ LacksFieldOf(NodeAt(dom, p), discovery.type))
    => /\ discovery.error = ErrMalformed
       /\ discovery.components = <<>>

\* A search for server components failed on a nested server marker without
\* descriptor, behind a well-formed server marker.
C14_Witness ==
  /\ discovery.called
  /\ ~discovery.directChildrenOnly
  /\ discovery.type = "server"
  /\ discovery.error = ErrMalformed
  /\ discovery.components = <<>>
  /\ Len(dom) = 2
  /\ dom[1] = Marker([type |-> "server", sequence |-> 0, descriptor |-> "AAA"])
  /\ dom[2] = Element(<<Marker([type |-> "server", sequence |-> 0])>>)

(***************************************************************************)
(* Properties of the auto mode decision (SpecAuto).                        *)
(***************************************************************************)
\* C15: the registry invokes the resolver at most once, and once it holds a result
\* no step changes it or invokes the resolver again, whatever completes afterwards.
C15_AutoModeDecidedOnce ==
  [][/\ resolverCalls' <= 1
     /\ autoRenderMode # Undefined =>
          /\ autoRenderMode' = autoRenderMode
          /\ resolverCalls' = resolverCalls
          /\ lastResolved' = lastResolved]_vars

\* The decision was 'server', the local-execution load has completed since and a
\* second auto descriptor is registered: the resolver ran once.
C15_Witness ==
  /\ autoRenderMode = "server"
  /\ hasWebAssemblyLoaded
  /\ loadCall = "resolved"
  /\ resolverCalls = 1
  /\ registered["auto"] >= 2
  /\ events = MaxEvents

(***************************************************************************)
(* C16: each start guard (hasCircuitStarted, hasStartedLoadingWebAssembly, *)
(* isStartingWebAssembly) is monotonic: once set, no step resets it, be it *)
(* a reconciliation, a registration, a resolver call or the rejection of   *)
(* the start; and once it is set no later trigger issues the start again.  *)
(***************************************************************************)
C16_StartGuardsMonotonic ==
  [][/\ hasCircuitStarted =>
          hasCircuitStarted' /\ startCircuitCalls' = startCircuitCalls
     /\ hasStartedLoadingWebAssembly =>
          hasStartedLoadingWebAssembly' /\ loadCalls' = loadCalls
     /\ isStartingWebAssembly =>
          isStartingWebAssembly' /\ startWasmCalls' = startWasmCalls]_vars

\* The circuit start and the local-execution start were both issued once and both
\* failed; a second server descriptor was registered and a reconciliation ran.
C16_Witness ==
  /\ circuitCall = "rejected" /\ hasCircuitStarted /\ startCircuitCalls = 1
  /\ wasmCall = "rejected" /\ isStartingWebAssembly /\ startWasmCalls = 1
  /\ registered["server"] >= 2
  /\ reconciliations >= 1

(***************************************************************************)
(* C17: a startCircuit and a startWebAssembly that complete successfully   *)
(* are each followed by exactly one reconciliation of the registry, run in *)
(* the continuation of that start, so only after it has completed.  A      *)
(* start trigger (a registration or a resolver call), collapsed by the     *)
(* guard or not, reconciles nothing by itself, neither does the completion *)
(* of loadWebAssemblyPlatform nor a rejected start: the registry is        *)
(* reconciled only by a completed start and by the navigation callbacks.   *)
(***************************************************************************)
CircuitStartCompletes == circuitCall = "pending" /\ circuitCall' = "resolved"

WebAssemblyStartCompletes == wasmCall = "pending" /\ wasmCall' = "resolved"

C17_OneReconciliationPerCompletedStart ==
  [][/\ CircuitStartCompletes => reconciliations' = reconciliations + 1
     /\ WebAssemblyStartCompletes => reconciliations' = reconciliations + 1
     /\ registered' # registered => reconciliations' = reconciliations
     /\ resolverCalls' # resolverCalls => reconciliations' = reconciliations
     /\ loadCall' # loadCall => reconciliations' = reconciliations
     /\ circuitCall = "pending" /\ circuitCall' = "rejected" =>
          reconciliations' = reconciliations
     /\ wasmCall = "pending" /\ wasmCall' = "rejected" =>
          reconciliations' = reconciliations
     /\ reconciliations' # reconciliations =>
          \/ CircuitStartCompletes
          \/ WebAssemblyStartCompletes
          \/ /\ events' = events + 1
             /\ registered' = registered
             /\ resolverCalls' = resolverCalls]_vars

\* Boot and two further triggers, no navigation callback: the three starts were issued
\* and have completed, a second server descriptor met the set guard, and the registry
\* was reconciled twice, once for the circuit and once for the local-execution start.
C17_Witness ==
  /\ events = 3
  /\ circuitCall = "resolved" /\ wasmCall = "resolved" /\ loadCall = "resolved"
  /\ registered["server"] >= 2
  /\ registered["auto"] >= 1
  /\ reconciliations = 2

(***************************************************************************)
(* C18: registerComponentDescriptor hands the descriptor to the registry   *)
(* before it triggers a start, so a start it issues finds the descriptor   *)
(* registered; and it triggers only the start matching the descriptor's    *)
(* type: 'server' the guarded circuit start, 'webassembly' the guarded     *)
(* local-execution start, 'auto' only the guarded payload load.            *)
(***************************************************************************)
Registers(t) ==
  registered' = [registered EXCEPT ![t] = @ + 1]

C18_RegistersThenTriggersMatchingStart ==
  [][/\ registered' # registered => \E t \in DescriptorTypes : Registers(t)
     /\ Registers("server") =>
          /\ hasCircuitStarted'
          /\ startCircuitCalls' = startCircuitCalls + (IF hasCircuitStarted THEN 0 ELSE 1)
          /\ ~hasCircuitStarted =>
               registeredAtCircuitStart' = registered["server"] + 1
          /\ UNCHANGED <<loadGuard, wasmGuard>>
     /\ Registers("webassembly") =>
          /\ isStartingWebAssembly'
          /\ startWasmCalls' = startWasmCalls + (IF isStartingWebAssembly THEN 0 ELSE 1)
          /\ ~isStartingWebAssembly =>
               registeredAtWebAssemblyStart' = registered["webassembly"] + 1
          /\ UNCHANGED <<circuitGuard, loadGuard>>
     /\ Registers("auto") =>
          /\ hasStartedLoadingWebAssembly'
          /\ loadCalls' = loadCalls + (IF hasStartedLoadingWebAssembly THEN 0 ELSE 1)
          /\ ~hasStartedLoadingWebAssembly =>
               registeredAtLoad' = registered["auto"] + 1
          /\ UNCHANGED <<circuitGuard, wasmGuard>>]_vars

\* Only auto descriptors were registered, two of them: the payload load was issued
\* with the first in the registry, and neither start was triggered.
C18_Witness ==
  /\ registered["auto"] = 2
  /\ registered["server"] = 0 /\ registered["webassembly"] = 0
  /\ resolverCalls = 0
  /\ loadCalls = 1 /\ registeredAtLoad = 1
  /\ startCircuitCalls = 0 /\ startWasmCalls = 0

(***************************************************************************)
(* C19: every invocation of the auto mode resolver returns 'webassembly'   *)
(* and triggers the guarded local-execution start when hasWebAssemblyLoaded*)
(* is true at that moment, and otherwise returns 'server' and triggers the *)
(* guarded circuit start; it never triggers both.  hasWebAssemblyLoaded is *)
(* true only once a loadWebAssemblyPlatform or a startWebAssembly call has *)
(* completed.                                                              *)
(***************************************************************************)
ResolverInvoked == resolverCalls' = resolverCalls + 1

C19_ResolverFollowsPayloadLoaded ==
  [][/\ ResolverInvoked /\ hasWebAssemblyLoaded =>
          /\ lastResolved' = "webassembly"
          /\ isStartingWebAssembly'
          /\ startWasmCalls' = startWasmCalls + (IF isStartingWebAssembly THEN 0 ELSE 1)
          /\ UNCHANGED circuitGuard
     /\ ResolverInvoked /\ ~hasWebAssemblyLoaded =>
          /\ lastResolved' = "server"
          /\ hasCircuitStarted'
          /\ startCircuitCalls' = startCircuitCalls + (IF hasCircuitStarted THEN 0 ELSE 1)
          /\ UNCHANGED wasmGuard
     /\ hasWebAssemblyLoaded' => loadCall' = "resolved" \/ wasmCall' = "resolved"]_vars

\* No server or webassembly descriptor was registered, yet both starts were issued:
\* the resolver answered 'server' before the payload had loaded and 'webassembly'
\* after it.
C19_Witness ==
  /\ registered["server"] = 0 /\ registered["webassembly"] = 0
  /\ resolverCalls = 2
  /\ lastResolved = "webassembly"
  /\ loadCall = "resolved" /\ hasWebAssemblyLoaded
  /\ startCircuitCalls = 1 /\ startWasmCalls = 1

(***************************************************************************)
(* C20: the end marker of a descriptor returned by discovery.              *)
(***************************************************************************)
\* The path q names a later sibling of the node at path p.
LaterSibling(p, q) ==
  /\ Len(q) = Len(p)
  /\ SubSeq(q, 1, Len(q) - 1) = SubSeq(p, 1, Len(p) - 1)
  /\ q[Len(q)] > p[Len(p)]

\* The descriptor d has an end marker exactly if its open marker carries a
\* prerenderId, and the end marker is a later sibling of its start whose payload is
\* {prerenderId: that id} and nothing else.
EndIffPrerenderId(d) ==
  LET open == NodeAt(dom, d.start)
  IN /\ d.end # NoNode <=> HasPrerenderId(open)
     /\ d.end # NoNode =>
          /\ LaterSibling(d.start, d.end)
          /\ NodeAt(dom, d.end) = Marker([prerenderId |-> open.payload.prerenderId])

\* C20 as claimed: every descriptor returned by discovery, of either kind, has an
\* end marker exactly if its open marker carried a prerenderId, and that end marker
\* is a later sibling of its start with the payload {prerenderId: same id}.
C20_EndIffPrerenderIdBothKinds ==
  discovery.called =>
    \A k \in 1..Len(discovery.components) :
      EndIffPrerenderId(discovery.components[k])

\* C20 amended: this holds for the server descriptors returned by discovery.  A
\* webassembly descriptor returned by discovery never has an end marker: when its
\* open marker carried a prerenderId the close marker {prerenderId: same id} is a
\* later sibling of its start, but the descriptor does not keep it.
C20_EndIffPrerenderIdServerOnly ==
  discovery.called =>
    \A k \in 1..Len(discovery.components) :
      LET d == discovery.components[k]
          open == NodeAt(dom, d.start)
      IN /\ d.type = "server" => EndIffPrerenderId(d)
         /\ d.type = "webassembly" =>
              /\ d.end = NoNode
              /\ HasPrerenderId(open) =>
                   \E q \in Paths(dom, <<>>) :
                     /\ LaterSibling(d.start, q)
                     /\ NodeAt(dom, q) =
                          Marker([prerenderId |-> open.payload.prerenderId])

\* Discovery returned a webassembly descriptor whose open marker carries a
\* prerenderId and is followed by its close marker: the descriptor has no end.
C20_Witness ==
  /\ discovery.called /\ discovery.type = "webassembly"
  /\ discovery.error = Undefined
  /\ \E k \in 1..Len(discovery.components) :
       LET d == discovery.components[k]
       IN /\ HasPrerenderId(NodeAt(dom, d.start))
          /\ d.end = NoNode
          /\ Len(d.start) = 2

(***************************************************************************)
(* C22: every reconciliation of the registry is invoked with insertions    *)
(* allowed exactly if no enhanced navigation is in progress at that        *)
(* moment, a navigation being in progress from beforeEnhancedNavigation up *)
(* to the next afterEnhancedNavigation; this holds also for the            *)
(* reconciliation of a circuit or local-execution start that completes     *)
(* while a navigation is in progress.                                      *)
(***************************************************************************)
C22_InsertionsIffNotNavigating ==
  [][reconciliations' # reconciliations =>
       lastAllowInsertions' = ~isPerformingEnhancedNavigation']_vars

\* The only reconciliation so far is that of the circuit start, which completed
\* during an enhanced navigation: insertions were not allowed.
C22_Witness ==
  /\ reconciliations = 1
  /\ circuitCall = "resolved"
  /\ wasmCall # "resolved"
  /\ isPerformingEnhancedNavigation
  /\ lastAllowInsertions = FALSE

(***************************************************************************)
(* C24: boot succeeds at most once.  Once started, started stays set, the  *)
(* stored start options are those of the first boot and no further scan of *)
(* the document is begun; a boot call that fails with the already-started  *)
(* error changes nothing: not the options, the start guards, the registry  *)
(* nor the navigation flag.                                                *)
(***************************************************************************)
C24_BootSucceedsAtMostOnce ==
  [][/\ started =>
          /\ started'
          /\ webStartOptions' = webStartOptions
          /\ Len(scanQueue') <= Len(scanQueue)
     /\ ~started /\ started' => bootResult' = "ok"
     /\ bootResult' = "already started" /\ bootResult # "already started" =>
          /\ started
          /\ UNCHANGED <<started, webStartOptions, isPerformingEnhancedNavigation,
                         hasWebAssemblyLoaded, circuitGuard, loadGuard, wasmGuard,
                         registered, scanQueue, reconciliations,
                         lastAllowInsertions, lastResolved>>]_vars

\* The first boot stored optionsA and registered a server descriptor of the
\* document, which issued the circuit start; a later boot call failed.
C24_Witness ==
  /\ started
  /\ bootResult = "already started"
  /\ webStartOptions = "optionsA"
  /\ registered["server"] = 1
  /\ startCircuitCalls = 1
  /\ events = 2

(***************************************************************************)
(* C23: the identity of one CircuitDescriptor under interleaved            *)
(* startCircuit, initialize and reconnect calls.                           *)
(***************************************************************************)
\* The remote call of an awaiting startCircuit returns a non-empty identity.
StartCircuitGivenIdentity ==
  /\ pendingStarts' = pendingStarts - 1
  /\ lastCall'.arg # Rejected
  /\ ~Falsy(lastCall'.arg)

PairedAt(nodes, i) ==
  /\ IsOpenMarker(nodes[i])
  /\ HasPrerenderId(nodes[i])
  /\ NearestMarkerAfter(nodes, i) # 0
  /\ IsCloseMarkerFor(nodes[NearestMarkerAfter(nodes, i)],
                      nodes[i].payload.prerenderId)

\* What the create...ComponentComment function of the kind searched for returns for
\* the marker at position i of the subtree's own list.
CreatedAt(i, type) ==
  IF type = "webassembly"
    THEN createWebAssemblyComponentComment(dom[i].payload, dom, <<>>, i)
    ELSE createServerComponentComment(dom[i].payload, dom, <<>>, i)

\* The start markers of the descriptors, those of a scan of the list behind
\* position j named by their path in the whole list.
StartsOf(components) == {components[k].start : k \in 1..Len(components)}

StartsBehind(components, j) ==
  {[components[k].start EXCEPT ![1] = @ + j] : k \in 1..Len(components)}

C21_SharedCursor ==
  discovery.called =>
    /\ \A i \in 1..Len(dom) :
         IsOpenMarker(dom[i]) /\ HasPrerenderId(dom[i]) =>
           LET e == pairEndComment(dom[i].payload, dom, i)
               c == CreatedAt(i, discovery.type)
           IN /\ e.error # Undefined => c.error = e.error
              /\ c.error \in {ErrNoDescriptor, ErrNoSequence, ErrNoAssembly,
                               ErrNoTypeName} => PairedAt(dom, i)
              /\ PairedAt(dom, i) => c.cursor = NearestMarkerAfter(dom, i)
    /\ (Len(dom) >= 1 /\ PairedAt(dom, 1)) =>
         LET j == NearestMarkerAfter(dom, 1)
             rest == discoverComponents(SubSeq(dom, j + 1, Len(dom)), discovery.type,
                                        discovery.directChildrenOnly, FALSE, 1)
             wanted == dom[1].payload.type = discovery.type
         IN IF wanted /\ LacksFieldOf(dom[1], discovery.type)
              THEN discovery.error = ErrMalformed
              ELSE /\ discovery.error = rest.error
                   /\ rest.error = Undefined =>
                        /\ Len(discovery.components) =
                             Len(rest.components) + (IF wanted THEN 1 ELSE 0)
                        /\ StartsOf(discovery.components) =
                             (IF wanted THEN {<<1>>} ELSE {})
                               \cup StartsBehind(rest.components, j)

\* A search of the whole subtree for server components returned one descriptor, for
\* the open marker paired with its third sibling; the element between them, which
\* holds a close marker that would fail as a start candidate, was not entered.
C21_Witness ==
  /\ discovery.called
  /\ discovery.type = "server"
  /\ ~discovery.directChildrenOnly
  /\ discovery.error = Undefined
  /\ Len(dom) = 3
  /\ PairedAt(dom, 1)
  /\ dom[2] = Element(<<Marker([prerenderId |-> "X"])>>)
  /\ Len(discovery.components) = 1
  /\ discovery.components[1].start = <<1>>
  /\ discovery.components[1].end = <<3>>

============================================================================
